---- MODULE Spec2Model ----
(***************************************************************************)
(* Model of the VirtuSIM order/deposit bot (src/main.js).                  *)
(*                                                                         *)
(* Part 1  AtomicFileManager: per-path lock, write-temp-then-rename,       *)
(*         JSON text on disk.  Specification SpecStore.                    *)
(***************************************************************************)
EXTENDS Integers, Sequences, FiniteSets, TLC

\* ------------------------------------------------------------------------
\* Bounds of the store model
\* ------------------------------------------------------------------------
\* number of distinct values Date.now() takes in temporary file names
MaxNow == 1

\* crashes and rejected file operations the environment injects
MaxFaults == 1

\* callers of the file manager that may be in flight at once
StoreProcs == {"s1", "s2"}

\* file names handed to the file manager; two spellings of one file
FilePaths == {"data.json", "./data.json", "orders.json"}

\* JSON-shaped values the callers write (arrays of small numbers)
Values == {<<>>, <<1>>}

\* default values the callers pass to atomicRead
Defaults == {<<>>, <<0>>}

\* ------------------------------------------------------------------------
\* Files on disk
\* ------------------------------------------------------------------------
Stamps == 1..MaxNow

\* path.resolve(filePath): the absolute path of a file name
resolve(filePath) ==
    IF filePath \in {"data.json", "./data.json"} THEN "/cwd/data.json"
    ELSE "/cwd/orders.json"

AbsPaths == {resolve(f) : f \in FilePaths}

\* a location on disk: the file itself (stamp 0) or one of its
\* temporary siblings `${filePath}.${Date.now()}.tmp`
Locations == [path : AbsPaths, stamp : {0} \cup Stamps]

Target(filePath) == [path |-> resolve(filePath), stamp |-> 0]

TempFileInPlace(filePath, now) == Target(filePath)

tempFile(filePath, now) == [path |-> resolve(filePath), stamp |-> now]

Absent == [present |-> FALSE, text |-> <<>>]

\* ------------------------------------------------------------------------
\* JSON.stringify / JSON.parse on the values of the model
\* ------------------------------------------------------------------------
NumTok(n) == CASE n = 0 -> "0" [] n = 1 -> "1" [] n = 2 -> "2" [] OTHER -> "9"

TokNum(t) == CASE t = "0" -> 0 [] t = "1" -> 1 [] t = "2" -> 2 [] OTHER -> 9

IsNumTok(t) == t \in {"0", "1", "2", "9"}

JSONstringifyEmpty(v) == <<"[", "]">>

\* JSON.stringify(data): the text of an array of numbers, one token each
JSONstringify(v) == <<"[">> \o [i \in 1..Len(v) |-> NumTok(v[i])] \o <<"]">>

\* JSON.parse(text) succeeds only on a complete text
JSONvalid(text) ==
    /\ Len(text) >= 2
    /\ text[1] = "["
    /\ text[Len(text)] = "]"
    /\ \A i \in 2..(Len(text) - 1) : IsNumTok(text[i])

JSONparse(text) == [i \in 1..(Len(text) - 2) |-> TokNum(text[i + 1])]

\* ------------------------------------------------------------------------
\* Bounds of the order / ledger model
\* ------------------------------------------------------------------------
\* poll ticks after which the monitor gives up (MAX_CHECK_ATTEMPTS is 20 in
\* the source; the model counts the same way with a smaller number)
MaxAttempts == 2

\* order ids the provider hands out
MaxOrders == 2

\* handlers and timer callbacks in flight at once
MaxProcs == 2

\* commands and button presses the users and the owner send
MaxCmds == 3

\* process crashes
MaxCrashes == 1

MaxDeposits == 2

MaxJobs == 5

\* completed orders of one user
MaxCompletions == 22

UserIds == {"u1", "u2"}

\* price of the service at the provider plus MARKUP_PROFIT
Prices == {1, 2}

\* amounts of /reff
ReffAmounts == {2}

OrderIds == 1..MaxOrders

Pids == 1..MaxProcs

\* new JobQueue(5): the handlers the queue runs at a time
concurrency == MaxProcs

\* get_balance of a payment
DepositAmounts == {2}

\* entries addToHistory keeps per user
HistoryCap == 20

\* the 5 minutes before a manual cancel is allowed, in 15 s poll intervals:
\* 300000 / 15000 = 20 = MAX_CHECK_ATTEMPTS
CancelAfter == MaxAttempts

NoUser == [present |-> FALSE, saldo |-> 0]

NoOrder == [orderId |-> 0, price |-> 0, status |-> "none"]

EmptyUsers == [u \in UserIds |-> NoUser]

EmptyOrders == [u \in UserIds |-> NoOrder]

NoProc == [kind |-> "none", pc |-> "idle", u |-> "u1", oid |-> 0, price |-> 0,
           oldPrice |-> 0, snapO |-> EmptyOrders, snapU |-> EmptyUsers,
           attempts |-> 0, cancelSuccess |-> FALSE]

NoMonitor == [u |-> "u1", attempt |-> 0, running |-> FALSE, sms |-> FALSE]

\* ------------------------------------------------------------------------
\* State
\* ------------------------------------------------------------------------
VARIABLES
    locks,      \* AtomicFileManager.locks: the set of held lock keys
    files,      \* the disk: content of every location
    sop,        \* the atomicRead / atomicWrite call of every caller
    written,    \* per file, the value of the last write renamed into place
    faults,     \* crashes and rejected file operations so far
    users,          \* data.json: the user records
    orders,         \* orders.json: the active order of every user
    history,        \* history.json: completed orders of every user, newest first
    pendingOrders,  \* this.pendingOrders: users with a purchase in flight
    processingCallbacks, \* this.processingCallbacks: the callback keys held
    refundLocks,    \* this.refundLocks: <<user, order>> pairs being refunded
    lockTimers,     \* pending setTimeout callbacks that drop a refund lock
    activeMonitors, \* this.activeMonitors: the interval registered per user
    monitors,       \* the setInterval of every order: attempt counter, running,
                    \* and whether a poll was answered with the SMS
    elapsed,        \* 15 s intervals since the timestamp of every order, -1 before
    procs,          \* handlers and timer callbacks in flight
    nextOrderId,    \* next order id of the provider
    ledger,         \* per user, the balance the credits and debits add up to
    refunds,        \* per order, the number of refund credits applied
    debited,        \* <<user, order, amount>>: the debits made for orders
    cmds,           \* commands and button presses handled so far
    crashes,        \* process crashes so far
    autoPending,    \* this.autoPending: the payments being watched
    nextTrxId,      \* next payment id of the provider
    credits,        \* per payment, the number of credits applied
    expired,        \* the payments the 10-minute ceiling has marked done
    queue,          \* JobQueue.queue: the jobs waiting, oldest first
    running,        \* JobQueue.running
    jobs,           \* per job: "new", "queued", "running", "completed", "failed"
    emitted,        \* per job, the event the queue emitted for it
    startOrder,     \* the jobs in the order they were started
    admitted        \* number of addJob calls so far

storeVars == <<locks, files, sop, written, faults>>

depositVars == <<autoPending, nextTrxId, credits, expired>>

queueVars == <<queue, running, jobs, emitted, startOrder, admitted>>

callbackVars == <<processingCallbacks>>

appVars == <<users, orders, history, pendingOrders, refundLocks, lockTimers,
             activeMonitors, monitors, elapsed, procs, nextOrderId,
             ledger, refunds, debited, cmds, crashes, depositVars, queueVars,
             callbackVars>>

vars == <<storeVars, appVars>>

InitApp ==
    /\ users = EmptyUsers
    /\ orders = EmptyOrders
    /\ history = [u \in UserIds |-> <<>>]
    /\ pendingOrders = {}
    /\ processingCallbacks = {}
    /\ refundLocks = {}
    /\ lockTimers = {}
    /\ activeMonitors = [u \in UserIds |-> 0]
    /\ monitors = [o \in OrderIds |-> NoMonitor]
    /\ elapsed = [o \in OrderIds |-> -1]
    /\ procs = [p \in Pids |-> NoProc]
    /\ nextOrderId = 1
    /\ ledger = [u \in UserIds |-> 0]
    /\ refunds = [o \in OrderIds |-> 0]
    /\ debited = {}
    /\ cmds = 0
    /\ crashes = 0
    /\ autoPending = <<>>
    /\ nextTrxId = 1
    /\ credits = [t \in 1..MaxDeposits |-> 0]
    /\ expired = {}
    /\ queue = <<>>
    /\ running = 0
    /\ jobs = [j \in 1..MaxJobs |-> "new"]
    /\ emitted = [j \in 1..MaxJobs |-> "none"]
    /\ startOrder = <<>>
    /\ admitted = 0

NoOp == [op |-> "none", pc |-> "idle", filePath |-> "data.json", data |-> <<>>,
         defaultValue |-> <<>>, lockKey |-> "", temp |-> Target("data.json"),
         outcome |-> "", result |-> <<>>,
         expect |-> [has |-> FALSE, v |-> <<>>, restarted |-> FALSE]]

InitFiles ==
    /\ locks = {}
    /\ files = [l \in Locations |-> Absent]
    /\ sop = [p \in StoreProcs |-> NoOp]
    /\ written = [a \in AbsPaths |-> [has |-> FALSE, v |-> <<>>, restarted |-> FALSE]]
    /\ faults = 0

InitStore == InitFiles /\ InitApp

\* ------------------------------------------------------------------------
\* acquireLock / releaseLock
\* ------------------------------------------------------------------------
LockFreeAlways(L, lockKey) == TRUE

\* `while (this.locks.has(lockKey))`: the caller passes only when the key is free
LockFree(L, lockKey) == lockKey \notin L

LockKeyGlobal(filePath) == "/cwd"

\* `const lockKey = path.resolve(filePath)`
LockKey(filePath) == resolve(filePath)

\* one pass through acquireLock: take the key, or go to sleep for 10 ms
acquireLock(p, filePath, call) ==
    LET lockKey == LockKey(filePath) IN
    IF LockFree(locks, lockKey)
    THEN /\ locks' = locks \cup {lockKey}
         /\ sop' = [sop EXCEPT ![p] = [call EXCEPT !.pc = "locked", !.lockKey = lockKey]]
    ELSE /\ locks' = locks
         /\ sop' = [sop EXCEPT ![p] = [call EXCEPT !.pc = "sleep", !.lockKey = lockKey]]

releaseLockKeep(lockKey) == locks

\* `this.locks.delete(lockKey)`
releaseLock(lockKey) == locks \ {lockKey}

Holding(p) == sop[p].pc \in {"locked", "writing", "written", "finally"}

\* ------------------------------------------------------------------------
\* atomicWrite
\* ------------------------------------------------------------------------
\* a caller invokes atomicWrite(filePath, data) and makes its first pass
\* through acquireLock
AtomicWriteCall(p) ==
    /\ sop[p].pc = "idle"
    /\ \E f \in FilePaths, v \in Values :
         acquireLock(p, f, [NoOp EXCEPT !.op = "write", !.filePath = f, !.data = v])
    /\ UNCHANGED appVars /\ UNCHANGED <<files, written, faults>>

\* the 10 ms timer of a sleeping caller fires and the key is free now
WakeUp(p) ==
    /\ sop[p].pc = "sleep"
    /\ LockFree(locks, LockKey(sop[p].filePath))
    /\ acquireLock(p, sop[p].filePath, sop[p])
    /\ UNCHANGED appVars /\ UNCHANGED <<files, written, faults>>

\* fs.writeFile(tempFile, ...) creates or truncates the temporary file
WriteFileOpen(p) ==
    /\ sop[p].op = "write" /\ sop[p].pc = "locked"
    /\ \E now \in Stamps :
         LET t == tempFile(sop[p].filePath, now) IN
           /\ files' = [files EXCEPT ![t] = [present |-> TRUE, text |-> <<>>]]
           /\ sop' = [sop EXCEPT ![p].pc = "writing", ![p].temp = t]
    /\ UNCHANGED appVars /\ UNCHANGED <<locks, written, faults>>

\* fs.writeFile writes the next piece of JSON.stringify(data)
WriteFileChunk(p) ==
    /\ sop[p].op = "write" /\ sop[p].pc = "writing"
    /\ LET full == JSONstringify(sop[p].data)
           t    == sop[p].temp
           n    == Len(files[t].text) + 1 IN
         /\ files' = [files EXCEPT ![t].text = SubSeq(full, 1, n)]
         /\ sop' = [sop EXCEPT ![p].pc = IF n = Len(full) THEN "written" ELSE "writing"]
    /\ UNCHANGED appVars /\ UNCHANGED <<locks, written, faults>>

\* fs.rename(tempFile, filePath): the file takes the content of the
\* temporary file in one step
Rename(p) ==
    /\ sop[p].op = "write" /\ sop[p].pc = "written"
    /\ LET t   == sop[p].temp
           tgt == Target(sop[p].filePath) IN
         /\ files' = IF t = tgt THEN files
                     ELSE [files EXCEPT ![tgt] = files[t], ![t] = Absent]
         /\ written' = [written EXCEPT ![tgt.path] =
                                 [has |-> TRUE, v |-> sop[p].data, restarted |-> FALSE]]
    /\ sop' = [sop EXCEPT ![p].pc = "finally", ![p].outcome = "ok"]
    /\ UNCHANGED appVars /\ UNCHANGED <<locks, faults>>

\* fs.writeFile or fs.rename rejects (disk full, I/O error)
WriteFail(p) ==
    /\ sop[p].op = "write" /\ sop[p].pc \in {"locked", "writing", "written"}
    /\ faults < MaxFaults
    /\ faults' = faults + 1
    /\ sop' = [sop EXCEPT ![p].pc = "finally", ![p].outcome = "EIO"]
    /\ UNCHANGED appVars /\ UNCHANGED <<locks, files, written>>

\* ------------------------------------------------------------------------
\* atomicRead
\* ------------------------------------------------------------------------
AtomicReadCall(p) ==
    /\ sop[p].pc = "idle"
    /\ \E f \in FilePaths, d \in Defaults :
         acquireLock(p, f, [NoOp EXCEPT !.op = "read", !.filePath = f, !.defaultValue = d])
    /\ UNCHANGED appVars /\ UNCHANGED <<files, written, faults>>

\* fs.readFile + JSON.parse: ENOENT gives the default, a text that does not
\* parse throws
ReadFile(p) ==
    /\ sop[p].op = "read" /\ sop[p].pc = "locked"
    /\ LET c == files[Target(sop[p].filePath)] IN
         sop' = [sop EXCEPT
                   ![p].pc = "finally",
                   ![p].expect = written[resolve(sop[p].filePath)],
                   ![p].outcome = IF ~c.present THEN "default"
                                  ELSE IF JSONvalid(c.text) THEN "value" ELSE "SyntaxError",
                   ![p].result = IF ~c.present THEN sop[p].defaultValue
                                 ELSE IF JSONvalid(c.text) THEN JSONparse(c.text) ELSE <<>>]
    /\ UNCHANGED appVars /\ UNCHANGED <<locks, files, written, faults>>

\* fs.readFile rejects with an error other than ENOENT
ReadFail(p) ==
    /\ sop[p].op = "read" /\ sop[p].pc = "locked"
    /\ sop' = [sop EXCEPT ![p].pc = "finally", ![p].outcome = "EIO",
                          ![p].expect = written[resolve(sop[p].filePath)]]
    /\ faults < MaxFaults
    /\ faults' = faults + 1
    /\ UNCHANGED appVars /\ UNCHANGED <<locks, files, written>>

\* the finally block of atomicWrite and atomicRead
Finally(p) ==
    /\ sop[p].pc = "finally"
    /\ locks' = releaseLock(sop[p].lockKey)
    /\ sop' = [sop EXCEPT ![p] = NoOp]
    /\ UNCHANGED appVars /\ UNCHANGED <<files, written, faults>>

\* the process dies and is started again: memory is lost, the disk stays
CrashStore ==
    /\ \E p \in StoreProcs : sop[p].pc # "idle"
    /\ locks' = {}
    /\ sop' = [p \in StoreProcs |-> NoOp]
    /\ faults < MaxFaults
    /\ faults' = faults + 1
    /\ written' = [a \in AbsPaths |-> [written[a] EXCEPT !.restarted = written[a].has]]
    /\ UNCHANGED appVars /\ UNCHANGED files

NextStore ==
    \/ \E p \in StoreProcs : AtomicWriteCall(p)
    \/ \E p \in StoreProcs : AtomicReadCall(p)
    \/ \E p \in StoreProcs : WakeUp(p)
    \/ \E p \in StoreProcs : WriteFileOpen(p)
    \/ \E p \in StoreProcs : WriteFileChunk(p)
    \/ \E p \in StoreProcs : Rename(p)
    \/ \E p \in StoreProcs : WriteFail(p)
    \/ \E p \in StoreProcs : ReadFile(p)
    \/ \E p \in StoreProcs : ReadFail(p)
    \/ \E p \in StoreProcs : Finally(p)
    \/ CrashStore

SpecStore == InitStore /\ [][NextStore]_vars

\* ------------------------------------------------------------------------
\* Properties of the store
\* ------------------------------------------------------------------------
MutualExclusion ==
    \A p, q \in StoreProcs :
        (p # q /\ Holding(p) /\ Holding(q))
            => resolve(sop[p].filePath) # resolve(sop[q].filePath)

SleepsOnlyBehindSameKey ==
    \A p \in StoreProcs :
        (sop'[p].pc = "sleep" /\ sop[p].pc # "sleep")
            => \E q \in StoreProcs \ {p} :
                   Holding(q) /\ resolve(sop[q].filePath) = resolve(sop'[p].filePath)

\* C8: at most one atomicRead or atomicWrite holds the lock of a resolved
\* file path at any time, and a caller is made to wait only while another
\* call holds the lock of the same resolved path (calls on different keys
\* never block each other).
C8_SameKeyExclusive == []MutualExclusion /\ [][SleepsOnlyBehindSameKey]_vars

\* one call holds data.json while a call on another spelling of the same
\* file sleeps, having been refused the lock
C8_Witness ==
    \E p, q \in StoreProcs :
        /\ Holding(p) /\ sop[p].filePath = "data.json"
        /\ sop[q].pc = "sleep" /\ sop[q].filePath = "./data.json"

NeverPartial ==
    \A f \in FilePaths :
        files[Target(f)].present => JSONvalid(files[Target(f)].text)

OldOrNew ==
    \A f \in FilePaths :
        files'[Target(f)] # files[Target(f)]
            => \E p \in StoreProcs :
                   /\ sop[p].op = "write"
                   /\ resolve(sop[p].filePath) = resolve(f)
                   /\ files'[Target(f)] =
                          [present |-> TRUE, text |-> JSONstringify(sop[p].data)]

\* C9: whatever step of atomicWrite a crash or an I/O failure interrupts,
\* the target file holds a complete text, the previous one or the new one;
\* it never holds a partially written text.
C9_WriteIsAllOrNothing == []NeverPartial /\ [][OldOrNew]_vars

\* a write was cut short (a half-written temporary file is left behind,
\* nobody is writing) and the target still holds a complete earlier value
C9_Witness ==
    /\ faults > 0
    /\ \A p \in StoreProcs : sop[p].pc = "idle"
    /\ \E a \in AbsPaths, st \in Stamps :
          /\ files[[path |-> a, stamp |-> st]].present
          /\ ~JSONvalid(files[[path |-> a, stamp |-> st]].text)
          /\ files[[path |-> a, stamp |-> 0]].present
          /\ written[a].has

\* C10: a read of a key that returns (no I/O error) after a completed write
\* of v to that key, with no later write to it, returns v; also when the
\* process was restarted in between.
C10_RoundTrip ==
    \A p \in StoreProcs :
        (sop[p].op = "read" /\ sop[p].pc = "finally"
            /\ sop[p].expect.has /\ sop[p].outcome # "EIO")
            => (sop[p].outcome = "value" /\ sop[p].result = sop[p].expect.v)

\* a read after a restart gets back the non-empty value written before it
C10_Witness ==
    \E p \in StoreProcs :
        /\ sop[p].op = "read" /\ sop[p].pc = "finally"
        /\ sop[p].expect.has /\ sop[p].expect.restarted
        /\ sop[p].outcome = "value" /\ sop[p].result = <<1>>

ReadOutcome ==
    \A p \in StoreProcs :
        (sop[p].op = "read" /\ sop[p].pc = "finally" /\ sop[p].outcome # "EIO")
            => LET c == files[Target(sop[p].filePath)] IN
                 /\ ~c.present => (sop[p].outcome = "default"
                                     /\ sop[p].result = sop[p].defaultValue)
                 /\ c.present => sop[p].outcome # "default"

LocksAreHeld ==
    \A k \in locks :
        \E p \in StoreProcs : Holding(p) /\ LockKey(sop[p].filePath) = k

\* C11: a read of a file that does not exist returns the caller's default
\* and a read of a file that exists never does; a rejected read or write
\* ends with its error; and whatever the outcome, a lock is in the lock
\* table only while a call on that key is between acquireLock and its
\* finally block.
C11_DefaultAndRelease == ReadOutcome /\ LocksAreHeld

\* after an earlier call was cut short, a read of a missing file holds the
\* only lock and is about to return its default
C11_Witness ==
    /\ faults > 0
    /\ \E p \in StoreProcs :
          /\ sop[p].op = "read" /\ sop[p].pc = "finally"
          /\ sop[p].outcome = "default" /\ sop[p].result = <<0>>
          /\ locks = {sop[p].lockKey}
          /\ \A q \in StoreProcs \ {p} : sop[q].pc = "idle"

(***************************************************************************)
(* Part 2  Orders and the ledger.  Specification Spec.                     *)
(*                                                                         *)
(* Node runs one callback at a time, so a step of the model is the code    *)
(* that runs between two awaits.  The tables are read and written through  *)
(* the file manager of part 1: a load returns the table as it is when the  *)
(* caller resumes, a save replaces the table.  A load that is followed by  *)
(* a save of the same table with no await in between is one step: the lock *)
(* is released and taken again within the same turn of the event loop,     *)
(* while every other caller waits for a 10 ms timer.                       *)
(***************************************************************************)

\* the lowest free slot takes the next handler or callback
FreeSlot(p) ==
    /\ procs[p].kind = "none"
    /\ \A q \in Pids : q < p => procs[q].kind # "none"

Idle == \A p \in Pids : procs[p].kind = "none"

End(p) == [procs EXCEPT ![p] = NoProc]

Goto(p, label) == [procs EXCEPT ![p].pc = label]

pendingOrdersDeleteKeep(flags, processingKey) == flags

\* this.pendingOrders.delete(processingKey)
pendingOrdersDelete(flags, processingKey) == flags \ {processingKey}

PriceRoseNever(finalPrice, oldPrice) == FALSE

\* `finalPrice > oldPrice`
PriceRose(finalPrice, oldPrice) == finalPrice > oldPrice

InsufficientFundsNoRecord(user, finalPrice) == ~user.present

\* `!user || user.saldo < finalPrice`
InsufficientFunds(user, finalPrice) == ~user.present \/ user.saldo < finalPrice

\* the answers processPurchase awaits before it returns
PurchaseReplies == {"pp_hasOrder", "pp_processing", "pp_servicesFailed",
                    "pp_outOfStock", "pp_priceChanged", "pp_insufficient",
                    "pp_orderFailed", "pp_refused", "pp_catch"}

CanDebitAlways(saldo, finalPrice) == TRUE

\* `users[userIndex].saldo < finalPrice` refuses the debit
CanDebit(saldo, finalPrice) == ~(saldo < finalPrice)

\* this.activeMonitors.has(key): the map is filled with numeric user ids,
\* a string key never matches
activeMonitorsHas(keyType, u) == keyType = "number" /\ activeMonitors[u] # 0

\* clearInterval(this.activeMonitors.get(u)); this.activeMonitors.delete(u)
StopRegistered(mons, u) ==
    IF activeMonitors[u] # 0
    THEN [mons EXCEPT ![activeMonitors[u]].running = FALSE]
    ELSE mons

\* ------------------------------------------------------------------------
\* processPurchase (callback buy_confirm_...)
\* ------------------------------------------------------------------------
\* the handler starts and awaits loadOrders
PP_Start(p) ==
    /\ FreeSlot(p)
    /\ cmds < MaxCmds
    /\ cmds' = cmds + 1
    /\ nextOrderId <= MaxOrders
    /\ \E u \in UserIds, oldPrice \in Prices :
         procs' = [procs EXCEPT ![p] =
                     [NoProc EXCEPT !.kind = "purchase", !.pc = "pp_loadOrders",
                                    !.u = u, !.oldPrice = oldPrice]]
    /\ UNCHANGED <<storeVars, callbackVars, queueVars, depositVars,
                   users, orders, history, pendingOrders, refundLocks, lockTimers,
                   activeMonitors, monitors, elapsed, nextOrderId,
                   ledger, refunds, debited, crashes>>

\* lines 1856-1882: an order in the table or a purchase in flight rejects
\* the request, otherwise the processing flag is set
PP_LoadOrders(p) ==
    /\ procs[p].pc = "pp_loadOrders"
    /\ LET u == procs[p].u IN
         IF orders[u] # NoOrder
         THEN /\ procs' = Goto(p, "pp_hasOrder")
              /\ UNCHANGED pendingOrders
         ELSE IF u \in pendingOrders
         THEN /\ procs' = Goto(p, "pp_processing")
              /\ UNCHANGED pendingOrders
         ELSE /\ pendingOrders' = pendingOrders \cup {u}
              /\ procs' = Goto(p, "pp_services")
    /\ UNCHANGED <<storeVars, callbackVars, queueVars, depositVars,
                   users, orders, history, refundLocks, lockTimers,
                   activeMonitors, monitors, elapsed, nextOrderId,
                   ledger, refunds, debited, cmds, crashes>>

\* lines 1884-1962: the "checking price" message, then the provider's
\* service list: a failed edit or request, no stock, or a price above the
\* confirmed one (the new price goes into the answer) drop the flag and
\* answer; otherwise getUser is awaited
PP_Services(p) ==
    /\ procs[p].pc = "pp_services"
    /\ \/ \E reply \in {"pp_catch", "pp_servicesFailed", "pp_outOfStock"} :
            /\ procs' = Goto(p, reply)
            /\ pendingOrders' = pendingOrdersDelete(pendingOrders, procs[p].u)
       \/ \E finalPrice \in Prices :
            IF PriceRose(finalPrice, procs[p].oldPrice)
            THEN /\ procs' = [procs EXCEPT ![p].pc = "pp_priceChanged",
                                           ![p].price = finalPrice]
                 /\ pendingOrders' = pendingOrdersDelete(pendingOrders, procs[p].u)
            ELSE /\ procs' = [procs EXCEPT ![p].pc = "pp_getUser", ![p].price = finalPrice]
                 /\ UNCHANGED pendingOrders
    /\ UNCHANGED <<storeVars, callbackVars, queueVars, depositVars,
                   users, orders, history, refundLocks, lockTimers,
                   activeMonitors, monitors, elapsed, nextOrderId,
                   ledger, refunds, debited, cmds, crashes>>

\* lines 1964-1983: no user record or a balance below the price ends the
\* purchase
PP_GetUser(p) ==
    /\ procs[p].pc = "pp_getUser"
    /\ LET u == procs[p].u IN
         IF InsufficientFunds(users[u], procs[p].price)
         THEN /\ procs' = Goto(p, "pp_insufficient")
              /\ pendingOrders' = pendingOrdersDelete(pendingOrders, u)
         ELSE /\ procs' = Goto(p, "pp_order")
              /\ UNCHANGED pendingOrders
    /\ UNCHANGED <<storeVars, callbackVars, queueVars, depositVars,
                   users, orders, history, refundLocks, lockTimers,
                   activeMonitors, monitors, elapsed, nextOrderId,
                   ledger, refunds, debited, cmds, crashes>>

\* lines 1985-2039: the "processing" message, then the provider's order
\* call: a failure ends the purchase, a success returns a fresh order id
PP_Order(p) ==
    /\ procs[p].pc = "pp_order"
    /\ \/ \E reply \in {"pp_catch", "pp_orderFailed"} :
            /\ procs' = Goto(p, reply)
            /\ pendingOrders' = pendingOrdersDelete(pendingOrders, procs[p].u)
            /\ UNCHANGED nextOrderId
       \/ /\ nextOrderId <= MaxOrders
          /\ procs' = [procs EXCEPT ![p].pc = "pp_loadUsers", ![p].oid = nextOrderId]
          /\ nextOrderId' = nextOrderId + 1
          /\ UNCHANGED pendingOrders
    /\ UNCHANGED <<storeVars, callbackVars, queueVars, depositVars,
                   users, orders, history, refundLocks, lockTimers,
                   activeMonitors, monitors, elapsed,
                   ledger, refunds, debited, cmds, crashes>>

\* lines 2041-2074: the balance is read again; a missing user or a balance
\* below the price releases the reservation, otherwise the price is debited
\* and the user table saved
PP_LoadUsers(p) ==
    /\ procs[p].pc = "pp_loadUsers"
    /\ LET u == procs[p].u
           finalPrice == procs[p].price IN
         IF users[u].present /\ CanDebit(users[u].saldo, finalPrice)
         THEN /\ users' = [users EXCEPT ![u].saldo = users[u].saldo - finalPrice]
              /\ ledger' = [ledger EXCEPT ![u] = ledger[u] - finalPrice]
              /\ debited' = debited \cup {<<u, procs[p].oid, finalPrice>>}
              /\ procs' = Goto(p, "pp_loadOrders2")
         ELSE /\ procs' = Goto(p, "pp_release")
              /\ UNCHANGED <<users, ledger, debited>>
    /\ UNCHANGED <<storeVars, callbackVars, queueVars, depositVars,
                   orders, history, pendingOrders, refundLocks, lockTimers,
                   activeMonitors, monitors, elapsed, nextOrderId,
                   refunds, cmds, crashes>>

\* lines 2045-2055 and 2059-2069: set_status cancel returned, the flag is
\* dropped
PP_Release(p) ==
    /\ procs[p].pc = "pp_release"
    /\ procs' = Goto(p, "pp_refused")
    /\ pendingOrders' = pendingOrdersDelete(pendingOrders, procs[p].u)
    /\ UNCHANGED <<storeVars, callbackVars, queueVars, depositVars,
                   users, orders, history, refundLocks, lockTimers,
                   activeMonitors, monitors, elapsed, nextOrderId,
                   ledger, refunds, debited, cmds, crashes>>

\* line 2076: the order table is loaded; the handler keeps it while it
\* awaits getUserName (line 2088)
PP_LoadOrders2(p) ==
    /\ procs[p].pc = "pp_loadOrders2"
    /\ procs' = [procs EXCEPT ![p].pc = "pp_getUserName", ![p].snapO = orders]
    /\ UNCHANGED <<storeVars, callbackVars, queueVars, depositVars,
                   users, orders, history, pendingOrders, refundLocks, lockTimers,
                   activeMonitors, monitors, elapsed, nextOrderId,
                   ledger, refunds, debited, cmds, crashes>>

\* lines 2077-2096: the order is put into the loaded table, the table is
\* saved and the flag dropped; the "order placed" message is awaited
PP_SaveOrder(p) ==
    /\ procs[p].pc = "pp_getUserName"
    /\ LET u == procs[p].u IN
         /\ orders' = [procs[p].snapO EXCEPT ![u] =
                          [orderId |-> procs[p].oid, price |-> procs[p].price,
                           status |-> "active"]]
         /\ pendingOrders' = pendingOrdersDelete(pendingOrders, u)
    /\ elapsed' = [elapsed EXCEPT ![procs[p].oid] = 0]
    /\ procs' = [procs EXCEPT ![p].pc = "pp_render", ![p].snapO = EmptyOrders]
    /\ UNCHANGED <<storeVars, callbackVars, queueVars, depositVars,
                   users, history, refundLocks, lockTimers,
                   activeMonitors, monitors, nextOrderId,
                   ledger, refunds, debited, cmds, crashes>>

\* lines 2113-2122 and 2182-2264: when the message was sent,
\* startSMSMonitoring clears the interval registered for the user and
\* registers a new one; lines 2160-2179: when the message failed, the
\* catch block drops the user's flag and answers, and no monitor is started
PP_Render(p) ==
    /\ procs[p].pc = "pp_render"
    /\ \/ LET u == procs[p].u
              o == procs[p].oid IN
            /\ monitors' = [StopRegistered(monitors, u) EXCEPT
                              ![o] = [u |-> u, attempt |-> 0, running |-> TRUE,
                                     sms |-> FALSE]]
            /\ activeMonitors' = [activeMonitors EXCEPT ![u] = o]
            /\ procs' = End(p)
            /\ UNCHANGED pendingOrders
       \/ /\ pendingOrders' = pendingOrdersDelete(pendingOrders, procs[p].u)
          /\ procs' = Goto(p, "pp_catch")
          /\ UNCHANGED <<monitors, activeMonitors>>
    /\ UNCHANGED <<storeVars, callbackVars, queueVars, depositVars,
                   users, orders, history, refundLocks, lockTimers,
                   elapsed, nextOrderId, ledger, refunds, debited, cmds, crashes>>

\* the answer of a purchase that was not placed has been sent (or has
\* failed for good): the handler returns
PP_Reply(p) ==
    /\ procs[p].pc \in PurchaseReplies
    /\ procs' = End(p)
    /\ UNCHANGED <<storeVars, callbackVars, queueVars, depositVars,
                   users, orders, history, pendingOrders, refundLocks, lockTimers,
                   activeMonitors, monitors, elapsed, nextOrderId,
                   ledger, refunds, debited, cmds, crashes>>

\* ------------------------------------------------------------------------
\* handleReffCommand (/reff): the owner credits a user, creating the record
\* when there is none (lines 912-939)
\* ------------------------------------------------------------------------
handleReffCommand ==
    /\ \E u \in UserIds, amount \in ReffAmounts :
         /\ cmds < MaxCmds
         /\ cmds' = cmds + 1
         /\ users' = [users EXCEPT ![u] =
                        [present |-> TRUE,
                         saldo |-> IF users[u].present THEN users[u].saldo + amount
                                   ELSE amount]]
         /\ ledger' = [ledger EXCEPT ![u] = ledger[u] + amount]
    /\ UNCHANGED <<storeVars, callbackVars, queueVars, depositVars,
                   orders, history, pendingOrders, refundLocks, lockTimers,
                   activeMonitors, monitors, elapsed, procs, nextOrderId,
                   refunds, debited, crashes>>

\* ------------------------------------------------------------------------
\* startSMSMonitoring: the setInterval callback, every 15 s
\* ------------------------------------------------------------------------
\* 15 s pass for an order that was placed: its age grows, and when its
\* interval runs the callback is started (line 2191: attempt++)
Interval(o) ==
    /\ elapsed[o] >= 0
    /\ elapsed[o] < CancelAfter \/ monitors[o].running
    /\ elapsed' = [elapsed EXCEPT ![o] = IF @ < CancelAfter THEN @ + 1 ELSE @]
    /\ IF monitors[o].running
       THEN \E p \in Pids :
              /\ FreeSlot(p)
              /\ monitors' = [monitors EXCEPT ![o].attempt =
                                 IF @ < MaxAttempts THEN @ + 1 ELSE @]
              /\ procs' = [procs EXCEPT ![p] =
                              [NoProc EXCEPT !.kind = "tick", !.pc = "tk_loadOrders",
                                             !.u = monitors[o].u, !.oid = o]]
       ELSE UNCHANGED <<monitors, procs>>
    /\ UNCHANGED <<storeVars, callbackVars, queueVars, depositVars,
                   users, orders, history, pendingOrders, refundLocks, lockTimers,
                   activeMonitors, nextOrderId, ledger, refunds, debited, cmds, crashes>>

\* lines 2194-2202: the order is gone, replaced or not active: the interval
\* stops; otherwise the provider status is requested
TK_LoadOrders(p) ==
    /\ procs[p].pc = "tk_loadOrders"
    /\ LET u == procs[p].u
           o == procs[p].oid IN
         IF orders[u] = NoOrder \/ orders[u].orderId # o \/ orders[u].status # "active"
         THEN /\ monitors' = [monitors EXCEPT ![o].running = FALSE]
              /\ activeMonitors' = [activeMonitors EXCEPT ![u] = 0]
              /\ procs' = End(p)
         ELSE /\ procs' = Goto(p, "tk_status")
              /\ UNCHANGED <<monitors, activeMonitors>>
    /\ UNCHANGED <<storeVars, callbackVars, queueVars, depositVars,
                   users, orders, history, pendingOrders, refundLocks, lockTimers,
                   elapsed, nextOrderId, ledger, refunds, debited, cmds, crashes>>

\* lines 2204-2207: the provider reports success with an SMS
TK_StatusSuccess(p) ==
    /\ procs[p].pc = "tk_status"
    /\ procs' = Goto(p, "tk_loadOrders2")
    /\ monitors' = [monitors EXCEPT ![procs[p].oid].sms = TRUE]
    /\ UNCHANGED <<storeVars, callbackVars, queueVars, depositVars,
                   users, orders, history, pendingOrders, refundLocks, lockTimers,
                   activeMonitors, elapsed, nextOrderId,
                   ledger, refunds, debited, cmds, crashes>>

\* lines 2253-2257 and 2267-2283: no SMS; at the last attempt the interval
\* stops and autoRefund starts: it returns when the refund lock is held,
\* otherwise takes the lock, stops the registered interval and asks the
\* provider to cancel
TK_StatusPending(p) ==
    /\ procs[p].pc = "tk_status"
    /\ LET u == procs[p].u
           o == procs[p].oid IN
         IF monitors[o].attempt >= MaxAttempts
         THEN /\ monitors' = [monitors EXCEPT ![o].running = FALSE]
              /\ activeMonitors' = [activeMonitors EXCEPT ![u] = 0]
              /\ IF <<u, o>> \in refundLocks
                 THEN /\ procs' = End(p)
                      /\ UNCHANGED refundLocks
                 ELSE /\ refundLocks' = refundLocks \cup {<<u, o>>}
                      /\ procs' = Goto(p, "ar_setStatus")
         ELSE /\ procs' = End(p)
              /\ UNCHANGED <<monitors, activeMonitors, refundLocks>>
    /\ UNCHANGED <<storeVars, callbackVars, queueVars, depositVars,
                   users, orders, history, pendingOrders, lockTimers,
                   elapsed, nextOrderId, ledger, refunds, debited, cmds, crashes>>

\* lines 2207-2212: the table is loaded again; an active order of the user
\* is marked completed and the table saved
TK_LoadOrders2(p) ==
    /\ procs[p].pc = "tk_loadOrders2"
    /\ LET u == procs[p].u IN
         IF orders[u] # NoOrder /\ orders[u].status = "active"
         THEN /\ orders' = [orders EXCEPT ![u].status = "completed"]
              /\ procs' = [procs EXCEPT ![p].pc = "tk_loadHistory", ![p].snapO = orders']
         ELSE /\ procs' = End(p)
              /\ UNCHANGED orders
    /\ UNCHANGED <<storeVars, callbackVars, queueVars, depositVars,
                   users, history, pendingOrders, refundLocks, lockTimers,
                   activeMonitors, monitors, elapsed, nextOrderId,
                   ledger, refunds, debited, cmds, crashes>>

addToHistoryNoCap(userHistory, historyEntry) == <<historyEntry>> \o userHistory

\* history[userId].unshift(historyEntry); when the length is above 20,
\* history[userId] = history[userId].slice(0, 20)
addToHistory(userHistory, historyEntry) ==
    LET unshifted == <<historyEntry>> \o userHistory IN
      IF Len(unshifted) > HistoryCap
      THEN SubSeq(unshifted, 1, HistoryCap)
      ELSE unshifted

\* lines 2214 and 3257-3292: addToHistory puts the order of the loaded
\* table in front of the user's history and keeps 20 entries
TK_AddToHistory(p) ==
    /\ procs[p].pc = "tk_loadHistory"
    /\ LET u == procs[p].u IN
         history' = [history EXCEPT ![u] = addToHistory(@, procs[p].snapO[u].orderId)]
    /\ procs' = Goto(p, "tk_saveOrders")
    /\ UNCHANGED <<storeVars, callbackVars, queueVars, depositVars,
                   users, orders, pendingOrders, refundLocks, lockTimers,
                   activeMonitors, monitors, elapsed, nextOrderId,
                   ledger, refunds, debited, cmds, crashes>>

\* lines 2216-2220: the user's order is deleted from the loaded table, the
\* table is saved and the interval stops
TK_SaveOrders(p) ==
    /\ procs[p].pc = "tk_saveOrders"
    /\ LET u == procs[p].u
           o == procs[p].oid IN
         /\ orders' = [procs[p].snapO EXCEPT ![u] = NoOrder]
         /\ monitors' = [monitors EXCEPT ![o].running = FALSE]
         /\ activeMonitors' = [activeMonitors EXCEPT ![u] = 0]
    /\ procs' = End(p)
    /\ UNCHANGED <<storeVars, callbackVars, queueVars, depositVars,
                   users, history, pendingOrders, refundLocks, lockTimers,
                   elapsed, nextOrderId, ledger, refunds, debited, cmds, crashes>>

\* ------------------------------------------------------------------------
\* updateUserSaldo(userId, amount, 'add') as the refund paths use it
\* ------------------------------------------------------------------------
RefundSucceeds(u) == users[u].present

CreditTwice(U, u, amount) == [U EXCEPT ![u].saldo = U[u].saldo + amount + amount]

\* `users[userIndex].saldo += amount`
Credit(U, u, amount) == [U EXCEPT ![u].saldo = U[u].saldo + amount]

\* ------------------------------------------------------------------------
\* autoRefund
\* ------------------------------------------------------------------------
\* the refund lock is dropped 5 s (autoRefund) or 10 s (cancelOrder) after
\* the handler's finally block
FinallyRefundLock(key) == lockTimers \cup {key}

\* what apiRequest('set_status', ...) returns: null when the request failed,
\* otherwise the provider's body
CancelResponses == {"null", "statusFalse", "ok"}

\* cancelResponse && cancelResponse.status
CancelSucceeded(cancelResponse) == cancelResponse = "ok"

\* line 2283: the provider is asked to cancel the order; autoRefund does not
\* look at the answer (cancelSuccess only remembers it here)
AR_SetStatus(p) ==
    /\ procs[p].pc = "ar_setStatus"
    /\ \E cancelResponse \in CancelResponses :
         procs' = [procs EXCEPT ![p].pc = "ar_loadOrders",
                                ![p].cancelSuccess = CancelSucceeded(cancelResponse)]
    /\ UNCHANGED <<storeVars, callbackVars, queueVars, depositVars,
                   users, orders, history, pendingOrders, refundLocks, lockTimers,
                   activeMonitors, monitors, elapsed, nextOrderId,
                   ledger, refunds, debited, cmds, crashes>>

\* lines 2285-2287: the table is loaded; the refund goes on when the user's
\* order has the refunded id
AR_LoadOrders(p) ==
    /\ procs[p].pc = "ar_loadOrders"
    /\ LET u == procs[p].u
           o == procs[p].oid IN
         IF orders[u] # NoOrder /\ orders[u].orderId = o
         THEN /\ procs' = [procs EXCEPT ![p].pc = "ar_credit", ![p].snapO = orders,
                                        ![p].price = orders[u].price]
              /\ UNCHANGED lockTimers
         ELSE /\ procs' = End(p)
              /\ lockTimers' = FinallyRefundLock(<<u, o>>)
    /\ UNCHANGED <<storeVars, callbackVars, queueVars, depositVars,
                   users, orders, history, pendingOrders, refundLocks,
                   activeMonitors, monitors, elapsed, nextOrderId,
                   ledger, refunds, debited, cmds, crashes>>

\* lines 2289-2291: the price is credited
AR_Credit(p) ==
    /\ procs[p].pc = "ar_credit"
    /\ LET u == procs[p].u
           o == procs[p].oid IN
         IF RefundSucceeds(u)
         THEN /\ users' = Credit(users, u, procs[p].price)
              /\ ledger' = [ledger EXCEPT ![u] = @ + procs[p].price]
              /\ refunds' = [refunds EXCEPT ![o] = @ + 1]
              /\ procs' = Goto(p, "ar_saveOrders")
              /\ UNCHANGED lockTimers
         ELSE /\ procs' = End(p)
              /\ lockTimers' = FinallyRefundLock(<<u, o>>)
              /\ UNCHANGED <<users, ledger, refunds>>
    /\ UNCHANGED <<storeVars, callbackVars, queueVars, depositVars,
                   orders, history, pendingOrders, refundLocks,
                   activeMonitors, monitors, elapsed, nextOrderId,
                   debited, cmds, crashes>>

\* lines 2292-2293 and 2317-2321: the order is deleted from the loaded
\* table and the table saved
AR_SaveOrders(p) ==
    /\ procs[p].pc = "ar_saveOrders"
    /\ orders' = [procs[p].snapO EXCEPT ![procs[p].u] = NoOrder]
    /\ lockTimers' = FinallyRefundLock(<<procs[p].u, procs[p].oid>>)
    /\ procs' = End(p)
    /\ UNCHANGED <<storeVars, callbackVars, queueVars, depositVars,
                   users, history, pendingOrders, refundLocks,
                   activeMonitors, monitors, elapsed, nextOrderId,
                   ledger, refunds, debited, cmds, crashes>>

\* the setTimeout of a finally block fires
RefundLockTimeout ==
    /\ \E key \in lockTimers :
         /\ lockTimers' = lockTimers \ {key}
         /\ refundLocks' = refundLocks \ {key}
    /\ UNCHANGED <<storeVars, callbackVars, queueVars, depositVars,
                   users, orders, history, pendingOrders,
                   activeMonitors, monitors, elapsed, procs, nextOrderId,
                   ledger, refunds, debited, cmds, crashes>>

\* ------------------------------------------------------------------------
\* cancelOrder (callback cancel_<orderId>)
\* ------------------------------------------------------------------------
NotYetCancellableNever(elapsedMinutes) == FALSE

\* elapsedMinutes < 5
NotYetCancellable(elapsedMinutes) == elapsedMinutes < CancelAfter

\* the button that sends the callback is put under the order message by
\* the timer of lines 2124-2158, 5 minutes after the message was sent; a
\* client can also send the callback data of an order it knows without the
\* button, which is the request the 5-minute test of line 2685 is there for.
\* lines 2653-2665: the handler returns when the refund lock is held,
\* otherwise it awaits loadOrders
CO_Start(p) ==
    /\ FreeSlot(p)
    /\ cmds < MaxCmds
    /\ cmds' = cmds + 1
    /\ \E u \in UserIds, o \in OrderIds :
         /\ \/ /\ monitors[o] # NoMonitor /\ monitors[o].u = u
               /\ elapsed[o] >= CancelAfter
            \/ /\ orders[u] # NoOrder /\ orders[u].orderId = o
               /\ elapsed[o] < CancelAfter
         /\ <<u, o>> \notin refundLocks
         /\ procs' = [procs EXCEPT ![p] =
                        [NoProc EXCEPT !.kind = "cancel", !.pc = "co_loadOrders",
                                       !.u = u, !.oid = o]]
    /\ UNCHANGED <<storeVars, callbackVars, queueVars, depositVars,
                   users, orders, history, pendingOrders, refundLocks, lockTimers,
                   activeMonitors, monitors, elapsed, nextOrderId,
                   ledger, refunds, debited, crashes>>

\* lines 2665-2718: the order must be the user's, otherwise the handler
\* returns; an order less than 5 minutes old is answered "not yet"; then
\* the refund lock is taken and the "cancelling" message awaited
CO_LoadOrders(p) ==
    /\ procs[p].pc = "co_loadOrders"
    /\ LET u == procs[p].u
           o == procs[p].oid IN
         IF orders[u] = NoOrder \/ orders[u].orderId # o
         THEN /\ procs' = End(p)
              /\ UNCHANGED refundLocks
         ELSE IF NotYetCancellable(elapsed[o])
         THEN /\ procs' = Goto(p, "co_notYet")
              /\ UNCHANGED refundLocks
         ELSE /\ refundLocks' = refundLocks \cup {<<u, o>>}
              /\ procs' = [procs EXCEPT ![p].pc = "co_render", ![p].snapO = orders,
                                        ![p].price = orders[u].price]
    /\ UNCHANGED <<storeVars, callbackVars, queueVars, depositVars,
                   users, orders, history, pendingOrders, lockTimers,
                   activeMonitors, monitors, elapsed, nextOrderId,
                   ledger, refunds, debited, cmds, crashes>>

\* lines 2694-2708: the "not yet" answer has been sent
CO_Reply(p) ==
    /\ procs[p].pc = "co_notYet"
    /\ procs' = End(p)
    /\ UNCHANGED <<storeVars, callbackVars, queueVars, depositVars,
                   users, orders, history, pendingOrders, refundLocks, lockTimers,
                   activeMonitors, monitors, elapsed, nextOrderId,
                   ledger, refunds, debited, cmds, crashes>>

\* lines 2720-2727: the registered interval stops, the order is marked
\* cancelling in the loaded table and the table saved
CO_MarkCancelling(p) ==
    /\ procs[p].pc = "co_render"
    /\ LET u == procs[p].u
           snap == [procs[p].snapO EXCEPT ![u].status = "cancelling"] IN
         /\ monitors' = StopRegistered(monitors, u)
         /\ activeMonitors' = [activeMonitors EXCEPT ![u] = 0]
         /\ orders' = snap
         /\ procs' = [procs EXCEPT ![p].pc = "co_setStatus", ![p].snapO = snap]
    /\ UNCHANGED <<storeVars, callbackVars, queueVars, depositVars,
                   users, history, pendingOrders, refundLocks, lockTimers,
                   elapsed, nextOrderId, ledger, refunds, debited, cmds, crashes>>

\* lines 2714 and 2806-2813: the "cancelling" message failed; the catch
\* block loads the table and sets the user's order back to active
CO_RenderFailed(p) ==
    /\ procs[p].pc = "co_render"
    /\ procs' = Goto(p, "co_catch")
    /\ UNCHANGED <<storeVars, callbackVars, queueVars, depositVars,
                   users, orders, history, pendingOrders, refundLocks, lockTimers,
                   activeMonitors, monitors, elapsed, nextOrderId,
                   ledger, refunds, debited, cmds, crashes>>

maxRetries == 3

RetryCancelAlways(cancelSuccess, attempts) == ~cancelSuccess

\* while (!cancelSuccess && attempts < maxRetries)
RetryCancel(cancelSuccess, attempts) == ~cancelSuccess /\ attempts < maxRetries

\* lines 2729-2755: one attempt to cancel the order at the provider; after a
\* failure that is not the last one the handler waits 2 s and asks again
CO_SetStatus(p) ==
    /\ procs[p].pc = "co_setStatus"
    /\ \E cancelResponse \in CancelResponses :
         LET attempts == procs[p].attempts + 1
             cancelSuccess == CancelSucceeded(cancelResponse) IN
           procs' = [procs EXCEPT
                       ![p].attempts = attempts,
                       ![p].cancelSuccess = cancelSuccess,
                       ![p].pc = IF RetryCancel(cancelSuccess, attempts)
                                 THEN "co_setStatus" ELSE "co_refund"]
    /\ UNCHANGED <<storeVars, callbackVars, queueVars, depositVars,
                   users, orders, history, pendingOrders, refundLocks, lockTimers,
                   activeMonitors, monitors, elapsed, nextOrderId,
                   ledger, refunds, debited, cmds, crashes>>

\* lines 2757-2764 and 2786-2789: whatever the provider answered, the price
\* is credited; when the credit fails the order is set back to active in
\* the loaded table
CO_Refund(p) ==
    /\ procs[p].pc = "co_refund"
    /\ LET u == procs[p].u
           o == procs[p].oid IN
         IF RefundSucceeds(u)
         THEN /\ users' = Credit(users, u, procs[p].price)
              /\ ledger' = [ledger EXCEPT ![u] = @ + procs[p].price]
              /\ refunds' = [refunds EXCEPT ![o] = @ + 1]
              /\ procs' = Goto(p, "co_loadOrders2")
              /\ UNCHANGED <<orders, lockTimers>>
         ELSE /\ orders' = [procs[p].snapO EXCEPT ![u].status = "active"]
              /\ lockTimers' = FinallyRefundLock(<<u, o>>)
              /\ procs' = End(p)
              /\ UNCHANGED <<users, ledger, refunds>>
    /\ UNCHANGED <<storeVars, callbackVars, queueVars, depositVars, history, pendingOrders, refundLocks,
                   activeMonitors, monitors, elapsed, nextOrderId,
                   debited, cmds, crashes>>

\* lines 2760-2764 and 2829-2833: the table is loaded again and the user's
\* order deleted
CO_DeleteOrder(p) ==
    /\ procs[p].pc = "co_loadOrders2"
    /\ orders' = [orders EXCEPT ![procs[p].u] = NoOrder]
    /\ lockTimers' = FinallyRefundLock(<<procs[p].u, procs[p].oid>>)
    /\ procs' = End(p)
    /\ UNCHANGED <<storeVars, callbackVars, queueVars, depositVars,
                   users, history, pendingOrders, refundLocks,
                   activeMonitors, monitors, elapsed, nextOrderId,
                   ledger, refunds, debited, cmds, crashes>>

\* lines 2809-2813 and 2829-2833: the catch block
CO_Catch(p) ==
    /\ procs[p].pc = "co_catch"
    /\ orders' = IF orders[procs[p].u] # NoOrder
                 THEN [orders EXCEPT ![procs[p].u].status = "active"]
                 ELSE orders
    /\ lockTimers' = FinallyRefundLock(<<procs[p].u, procs[p].oid>>)
    /\ procs' = End(p)
    /\ UNCHANGED <<storeVars, callbackVars, queueVars, depositVars,
                   users, history, pendingOrders, refundLocks,
                   activeMonitors, monitors, elapsed, nextOrderId,
                   ledger, refunds, debited, cmds, crashes>>

\* ------------------------------------------------------------------------
\* A store operation of a handler throws (atomicRead rethrows what is not
\* ENOENT, atomicWrite what writeFile or rename throw)
\* ------------------------------------------------------------------------
\* lines 2041, 2074, 2076, 2090 and 2160-2179: loadUsers or saveUsers of
\* the debit, or loadOrders or saveOrders of the order record, throws; the
\* catch block drops the flag and answers "system error, balance not
\* debited"
PP_StoreFails(p) ==
    /\ procs[p].pc \in {"pp_loadUsers", "pp_loadOrders2", "pp_getUserName"}
    /\ faults < MaxFaults
    /\ faults' = faults + 1
    /\ pendingOrders' = pendingOrdersDelete(pendingOrders, procs[p].u)
    /\ procs' = [procs EXCEPT ![p].pc = "pp_catch", ![p].snapO = EmptyOrders]
    /\ UNCHANGED <<locks, files, sop, written, callbackVars, queueVars, depositVars,
                   users, orders, history, refundLocks, lockTimers,
                   activeMonitors, monitors, elapsed, nextOrderId,
                   ledger, refunds, debited, cmds, crashes>>

\* lines 2285, 2293 and 2314-2321: loadOrders, or saveOrders after the
\* credit, throws; the catch block logs it and the finally block sets the
\* lock timer
AR_StoreFails(p) ==
    /\ procs[p].pc \in {"ar_loadOrders", "ar_saveOrders"}
    /\ faults < MaxFaults
    /\ faults' = faults + 1
    /\ lockTimers' = FinallyRefundLock(<<procs[p].u, procs[p].oid>>)
    /\ procs' = End(p)
    /\ UNCHANGED <<locks, files, sop, written, callbackVars, queueVars, depositVars,
                   users, orders, history, pendingOrders, refundLocks,
                   activeMonitors, monitors, elapsed, nextOrderId,
                   ledger, refunds, debited, cmds, crashes>>

\* lines 2760-2763 and 2806: loadOrders or saveOrders after the credit
\* throws; the catch block follows
CO_StoreFails(p) ==
    /\ procs[p].pc = "co_loadOrders2"
    /\ faults < MaxFaults
    /\ faults' = faults + 1
    /\ procs' = Goto(p, "co_catch")
    /\ UNCHANGED <<locks, files, sop, written, callbackVars, queueVars, depositVars,
                   users, orders, history, pendingOrders, refundLocks, lockTimers,
                   activeMonitors, monitors, elapsed, nextOrderId,
                   ledger, refunds, debited, cmds, crashes>>

\* ------------------------------------------------------------------------
\* handleDelete (/del): the owner removes a user
\* ------------------------------------------------------------------------
HD_Start(p) ==
    /\ FreeSlot(p)
    /\ cmds < MaxCmds
    /\ cmds' = cmds + 1
    /\ \E u \in UserIds :
         procs' = [procs EXCEPT ![p] =
                     [NoProc EXCEPT !.kind = "delete", !.pc = "hd_loadUsers", !.u = u]]
    /\ UNCHANGED <<storeVars, callbackVars, queueVars, depositVars,
                   users, orders, history, pendingOrders, refundLocks, lockTimers,
                   activeMonitors, monitors, elapsed, nextOrderId,
                   ledger, refunds, debited, crashes>>

\* lines 1689-1700: the user table is loaded; an unknown user ends the
\* command, otherwise the handler keeps the table and awaits loadOrders
HD_LoadUsers(p) ==
    /\ procs[p].pc = "hd_loadUsers"
    /\ IF ~users[procs[p].u].present
       THEN procs' = End(p)
       ELSE procs' = [procs EXCEPT ![p].pc = "hd_loadOrders", ![p].snapU = users]
    /\ UNCHANGED <<storeVars, callbackVars, queueVars, depositVars,
                   users, orders, history, pendingOrders, refundLocks, lockTimers,
                   activeMonitors, monitors, elapsed, nextOrderId,
                   ledger, refunds, debited, cmds, crashes>>

\* lines 1702-1720: with an active order the registered interval is
\* looked up under the string id of the command and the provider's cancel
\* awaited; without one the user is cut out of the loaded user table and
\* the table saved
HD_LoadOrders(p) ==
    /\ procs[p].pc = "hd_loadOrders"
    /\ LET u == procs[p].u IN
         IF orders[u] # NoOrder
         THEN /\ monitors' = IF activeMonitorsHas("string", u)
                             THEN StopRegistered(monitors, u) ELSE monitors
              /\ activeMonitors' = IF activeMonitorsHas("string", u)
                                   THEN [activeMonitors EXCEPT ![u] = 0]
                                   ELSE activeMonitors
              /\ procs' = [procs EXCEPT ![p].pc = "hd_cancelApi", ![p].snapO = orders]
              /\ UNCHANGED <<users, ledger>>
         ELSE /\ users' = [procs[p].snapU EXCEPT ![u] = NoUser]
              /\ ledger' = [ledger EXCEPT ![u] = 0]
              /\ procs' = End(p)
              /\ UNCHANGED <<monitors, activeMonitors>>
    /\ UNCHANGED <<storeVars, callbackVars, queueVars, depositVars,
                   orders, history, pendingOrders, refundLocks, lockTimers,
                   elapsed, nextOrderId, refunds, debited, cmds, crashes>>

\* lines 1715-1716: the order is deleted from the loaded order table and
\* the table saved
HD_SaveOrders(p) ==
    /\ procs[p].pc = "hd_cancelApi"
    /\ orders' = [procs[p].snapO EXCEPT ![procs[p].u] = NoOrder]
    /\ procs' = [procs EXCEPT ![p].pc = "hd_saveUsers", ![p].snapO = EmptyOrders]
    /\ UNCHANGED <<storeVars, callbackVars, queueVars, depositVars,
                   users, history, pendingOrders, refundLocks, lockTimers,
                   activeMonitors, monitors, elapsed, nextOrderId,
                   ledger, refunds, debited, cmds, crashes>>

\* lines 1719-1720: the user is cut out of the loaded user table and the
\* table saved
HD_SaveUsers(p) ==
    /\ procs[p].pc = "hd_saveUsers"
    /\ users' = [procs[p].snapU EXCEPT ![procs[p].u] = NoUser]
    /\ ledger' = [ledger EXCEPT ![procs[p].u] = 0]
    /\ procs' = End(p)
    /\ UNCHANGED <<storeVars, callbackVars, queueVars, depositVars,
                   orders, history, pendingOrders, refundLocks, lockTimers,
                   activeMonitors, monitors, elapsed, nextOrderId,
                   refunds, debited, cmds, crashes>>

\* ------------------------------------------------------------------------
\* startCleanupWorker: every 60 s (lines 2627-2636)
\* ------------------------------------------------------------------------
\* refund locks are trimmed only above 100 entries, which the model never
\* holds
CleanupWorker ==
    /\ pendingOrders # {}
    /\ pendingOrders' = {}
    /\ UNCHANGED <<storeVars, callbackVars, queueVars, depositVars,
                   users, orders, history, refundLocks, lockTimers,
                   activeMonitors, monitors, elapsed, procs, nextOrderId,
                   ledger, refunds, debited, cmds, crashes>>

\* ------------------------------------------------------------------------
\* The process dies and is started again (constructor, lines 422-437):
\* the tables stay, everything in memory is lost, no interval is restarted
\* ------------------------------------------------------------------------
Crash ==
    /\ crashes < MaxCrashes
    /\ ~Idle
    /\ crashes' = crashes + 1
    /\ pendingOrders' = {}
    /\ refundLocks' = {}
    /\ lockTimers' = {}
    /\ activeMonitors' = [u \in UserIds |-> 0]
    /\ monitors' = [o \in OrderIds |-> [monitors[o] EXCEPT !.running = FALSE]]
    /\ procs' = [p \in Pids |-> NoProc]
    /\ autoPending' = <<>>
    /\ processingCallbacks' = {}
    /\ UNCHANGED <<storeVars, queueVars, nextTrxId, credits, expired, users, orders, history, elapsed, nextOrderId,
                   ledger, refunds, debited, cmds>>

Next ==
    \/ \E p \in Pids : PP_Start(p)
    \/ \E p \in Pids : PP_LoadOrders(p)
    \/ \E p \in Pids : PP_Services(p)
    \/ \E p \in Pids : PP_GetUser(p)
    \/ \E p \in Pids : PP_Order(p)
    \/ \E p \in Pids : PP_LoadUsers(p)
    \/ \E p \in Pids : PP_Release(p)
    \/ \E p \in Pids : PP_LoadOrders2(p)
    \/ \E p \in Pids : PP_SaveOrder(p)
    \/ \E p \in Pids : PP_Render(p)
    \/ \E p \in Pids : PP_Reply(p)
    \/ handleReffCommand
    \/ \E o \in OrderIds : Interval(o)
    \/ \E p \in Pids : TK_LoadOrders(p)
    \/ \E p \in Pids : TK_StatusSuccess(p)
    \/ \E p \in Pids : TK_StatusPending(p)
    \/ \E p \in Pids : TK_LoadOrders2(p)
    \/ \E p \in Pids : TK_AddToHistory(p)
    \/ \E p \in Pids : TK_SaveOrders(p)
    \/ \E p \in Pids : AR_SetStatus(p)
    \/ \E p \in Pids : AR_LoadOrders(p)
    \/ \E p \in Pids : AR_Credit(p)
    \/ \E p \in Pids : AR_SaveOrders(p)
    \/ RefundLockTimeout
    \/ \E p \in Pids : CO_Start(p)
    \/ \E p \in Pids : CO_LoadOrders(p)
    \/ \E p \in Pids : CO_Reply(p)
    \/ \E p \in Pids : CO_MarkCancelling(p)
    \/ \E p \in Pids : CO_RenderFailed(p)
    \/ \E p \in Pids : CO_SetStatus(p)
    \/ \E p \in Pids : CO_Refund(p)
    \/ \E p \in Pids : CO_DeleteOrder(p)
    \/ \E p \in Pids : CO_Catch(p)
    \/ \E p \in Pids : HD_Start(p)
    \/ \E p \in Pids : HD_LoadUsers(p)
    \/ \E p \in Pids : HD_LoadOrders(p)
    \/ \E p \in Pids : HD_SaveOrders(p)
    \/ \E p \in Pids : HD_SaveUsers(p)
    \/ CleanupWorker

InitOrders == InitFiles /\ InitApp

Spec == InitOrders /\ [][Next]_vars

NextCrash ==
    \/ Next
    \/ Crash
    \/ \E p \in Pids : PP_StoreFails(p)
    \/ \E p \in Pids : AR_StoreFails(p)
    \/ \E p \in Pids : CO_StoreFails(p)

SpecCrash == InitOrders /\ [][NextCrash]_vars

\* ------------------------------------------------------------------------
\* Properties of the orders and the ledger
\* ------------------------------------------------------------------------
Balance(u) == IF users[u].present THEN users[u].saldo ELSE 0

Debited(u, o) == \E amount \in Prices : <<u, o, amount>> \in debited

InFlight(u) == \E p \in Pids : procs[p].kind # "none" /\ procs[p].u = u

Reserved(p) ==
    /\ procs[p].kind = "purchase"
    /\ procs[p].pc \in {"pp_loadUsers", "pp_release", "pp_loadOrders2",
                        "pp_getUserName", "pp_render"}

HistoryIds(u) == {history[u][i] : i \in 1..Len(history[u])}

\* C1: the persisted balance of every user is never negative.
C1_BalanceNonNegative == \A u \in UserIds : users[u].saldo >= 0

\* a purchase that passed the first balance check finds the balance spent
\* at the second one and releases its reservation
C1_Witness ==
    \E p \in Pids :
        /\ procs[p].pc = "pp_release"
        /\ users[procs[p].u].present
        /\ users[procs[p].u].saldo = 0
        /\ \E o \in OrderIds : Debited(procs[p].u, o)

\* C2: when no handler is in flight, the balance of every user is the sum of
\* the credits minus the debits that reported success (a purge takes the
\* whole balance): no update is lost.
C2_NoLostUpdate == Idle => \A u \in UserIds : Balance(u) = ledger[u]

\* C3: two purchases of one user never both hold a provider reservation.
C3_OneReservationPerUser ==
    \A p, q \in Pids :
        (p # q /\ Reserved(p) /\ Reserved(q)) => procs[p].u # procs[q].u

\* C4: the price of an order is credited back at most once, whatever the
\* interleaving of autoRefund and cancelOrder.
C4_RefundOnce == \A o \in OrderIds : refunds[o] <= 1

\* C6: once the monitor of an order has made MAX_CHECK_ATTEMPTS polls
\* without a success, the monitor is stopped and the order removed: when the
\* order is still in the table, its monitor or a handler of its user is
\* still at work on it.
C6_TimeoutRefunds ==
    \A u \in UserIds :
        (orders[u] # NoOrder /\ monitors[orders[u].orderId].attempt >= MaxAttempts)
            => (monitors[orders[u].orderId].running \/ InFlight(u))

\* C7: after a crash, every debit of a user that still has a record is
\* matched by a persisted order, a history entry or a refund.
C7_CrashKeepsMoney ==
    (crashes > 0 /\ Idle)
        => \A u \in UserIds, o \in OrderIds :
              (Debited(u, o) /\ users[u].present)
                  => \/ orders[u].orderId = o
                     \/ o \in HistoryIds(u)
                     \/ refunds[o] > 0

\* ------------------------------------------------------------------------
\* Properties of processPurchase
\* ------------------------------------------------------------------------
GetUserRejects ==
    \A p \in Pids :
        (/\ procs[p].pc = "pp_getUser"
         /\ procs'[p] # procs[p]
         /\ \/ ~users[procs[p].u].present
            \/ users[procs[p].u].saldo < procs[p].price)
            => /\ procs'[p].pc = "pp_insufficient"
               /\ nextOrderId' = nextOrderId
               /\ orders' = orders
               /\ users' = users

\* C15: a purchase that finds no user record or a balance below the current
\* price answers "insufficient balance": it has made no reservation at the
\* provider, and it changes neither the order table nor any balance.
C15_InsufficientRejected ==
    /\ [][GetUserRejects]_vars
    /\ [](\A p \in Pids : procs[p].pc = "pp_insufficient" => procs[p].oid = 0)

\* a user with a record and a balance below the price is being told so,
\* and no other handler is at work
C15_Witness ==
    \E p \in Pids :
        /\ procs[p].pc = "pp_insufficient"
        /\ users[procs[p].u].present
        /\ users[procs[p].u].saldo < procs[p].price
        /\ orders[procs[p].u] = NoOrder
        /\ \A q \in Pids \ {p} : procs[q].kind = "none"

DebitWithinConfirmed ==
    \A p \in Pids :
        (procs[p].pc = "pp_loadUsers" /\ procs'[p] # procs[p])
            => LET u == procs[p].u IN
                 /\ users[u].saldo - users'[u].saldo <= procs[p].oldPrice
                 /\ \A t \in debited' \ debited : t[3] <= procs[p].oldPrice

NoDebitOnChange ==
    \A p \in Pids :
        /\ (procs[p].pc = "pp_services" /\ procs'[p] # procs[p]
               /\ procs'[p].price > procs[p].oldPrice)
              => procs'[p].pc = "pp_priceChanged"
        /\ (procs[p].pc \in {"pp_services", "pp_priceChanged", "pp_outOfStock"}
               /\ procs'[p] # procs[p])
              => /\ users' = users
                 /\ orders' = orders
                 /\ debited' = debited
                 /\ nextOrderId' = nextOrderId
        /\ (procs[p].pc \in {"pp_priceChanged", "pp_outOfStock"}
               /\ procs'[p] # procs[p])
              => procs'[p] = NoProc

\* C20: what processPurchase takes from the balance is at most the price in
\* the button the user pressed; a current price above it is answered with
\* the new price to confirm, a missing service or no stock with "out of
\* stock", and in both cases nothing was ordered at the provider and no
\* balance or order changes.
C20_DebitWithinConfirmed ==
    /\ [][DebitWithinConfirmed /\ NoDebitOnChange]_vars
    /\ [](\A p \in Pids :
             procs[p].pc \in {"pp_priceChanged", "pp_outOfStock"} => procs[p].oid = 0)

\* a user who could pay the new price is asked to confirm it, and nothing
\* has been taken or ordered
C20_Witness ==
    \E p \in Pids :
        /\ procs[p].pc = "pp_priceChanged"
        /\ procs[p].price > procs[p].oldPrice
        /\ users[procs[p].u].present
        /\ users[procs[p].u].saldo >= procs[p].price
        /\ users[procs[p].u].saldo = ledger[procs[p].u]
        /\ orders[procs[p].u] = NoOrder
        /\ debited = {}

OrderFails ==
    \A p \in Pids :
        /\ (procs[p].pc = "pp_order" /\ procs'[p].pc = "pp_orderFailed")
              => /\ users' = users
                 /\ orders' = orders
                 /\ debited' = debited
                 /\ nextOrderId' = nextOrderId
                 /\ procs'[p].oid = 0
                 /\ procs[p].u \notin pendingOrders'
        /\ (procs[p].pc = "pp_orderFailed" /\ procs'[p] # procs[p])
              => /\ procs'[p] = NoProc
                 /\ users' = users
                 /\ orders' = orders
                 /\ debited' = debited

\* C21: when the provider's order call fails, processPurchase takes nothing
\* from the balance, puts no order into the table, drops the user's
\* processing flag and returns after its answer.
C21_OrderFailureClosed == [][OrderFails]_vars

\* a user who can pay is told that the provider refused; the balance is
\* whole, there is no order and the flag is gone
C21_Witness ==
    \E p \in Pids :
        /\ procs[p].pc = "pp_orderFailed"
        /\ users[procs[p].u].present
        /\ users[procs[p].u].saldo >= procs[p].price
        /\ users[procs[p].u].saldo = ledger[procs[p].u]
        /\ orders[procs[p].u] = NoOrder
        /\ procs[p].u \notin pendingOrders
        /\ debited = {}

RecheckReleases ==
    \A p \in Pids :
        /\ (/\ procs[p].pc = "pp_loadUsers"
             /\ procs'[p] # procs[p]
             /\ \/ ~users[procs[p].u].present
                \/ users[procs[p].u].saldo < procs[p].price)
              => /\ procs'[p].pc = "pp_release"
                 /\ users' = users
                 /\ orders' = orders
                 /\ debited' = debited
        /\ (procs[p].pc = "pp_release" /\ procs'[p] # procs[p])
              => /\ procs'[p].pc = "pp_refused"
                 /\ users' = users
                 /\ orders' = orders
                 /\ debited' = debited
        /\ (procs[p].pc = "pp_refused" /\ procs'[p] # procs[p])
              => /\ procs'[p] = NoProc
                 /\ users' = users
                 /\ orders' = orders
                 /\ debited' = debited

\* C22: when the balance read after the provider's reservation is below
\* the price, or the record is gone, processPurchase asks the provider to
\* cancel the reservation and returns: it debits nothing and saves no order.
C22_RecheckReleases == [][RecheckReleases]_vars

\* a reservation was made and given back because the balance no longer
\* covered the price; nothing was debited for it and the user has no order
\* of that id
C22_Witness ==
    \E p \in Pids :
        /\ procs[p].pc = "pp_refused"
        /\ procs[p].oid # 0
        /\ \/ ~users[procs[p].u].present
           \/ users[procs[p].u].saldo < procs[p].price
        /\ ~Debited(procs[p].u, procs[p].oid)
        /\ \/ orders[procs[p].u] = NoOrder
           \/ orders[procs[p].u].orderId # procs[p].oid

RefundDespiteFailure ==
    \A p \in Pids :
        LET u == procs[p].u
            o == procs[p].oid
            failed == ~procs[p].cancelSuccess /\ procs'[p] # procs[p] IN
          /\ (procs[p].pc = "ar_loadOrders" /\ failed
                 /\ orders[u] # NoOrder /\ orders[u].orderId = o)
                => procs'[p].pc = "ar_credit" /\ procs'[p].price = orders[u].price
          /\ (procs[p].pc \in {"ar_credit", "co_refund"} /\ failed /\ users[u].present)
                => /\ users'[u].saldo = users[u].saldo + procs[p].price
                   /\ procs'[p].pc \in {"ar_saveOrders", "co_loadOrders2"}
          /\ (procs[p].pc \in {"ar_saveOrders", "co_loadOrders2"} /\ failed)
                => orders'[u] = NoOrder
          /\ (procs[p].pc = "co_setStatus" /\ procs'[p] # procs[p])
                => /\ procs'[p].attempts <= 3
                   /\ procs'[p].attempts = 3 => procs'[p].pc = "co_refund"
                   /\ procs'[p].pc = "co_refund" => procs'[p].price = procs[p].snapO[u].price

\* C23: when the provider's cancel call fails (in cancelOrder: on each of
\* its at most 3 attempts), autoRefund and cancelOrder go on as they do
\* after a success: the order's price is credited to the user's record and
\* the user's order is deleted from the table.
C23_RefundDespiteProviderFailure == [][RefundDespiteFailure]_vars

\* cancelOrder has asked the provider three times in vain, has credited the
\* price and is about to delete the order
C23_Witness ==
    \E p \in Pids :
        /\ procs[p].pc = "co_loadOrders2"
        /\ procs[p].attempts = 3
        /\ ~procs[p].cancelSuccess
        /\ refunds[procs[p].oid] = 1
        /\ Debited(procs[p].u, procs[p].oid)
        /\ users[procs[p].u].saldo = ledger[procs[p].u]

EarlyCancelKeeps ==
    \A p \in Pids :
        LET u == procs[p].u
            o == procs[p].oid
            kept == /\ orders' = orders
                    /\ users' = users
                    /\ refundLocks' = refundLocks
                    /\ lockTimers' = lockTimers
                    /\ monitors' = monitors
                    /\ activeMonitors' = activeMonitors IN
          /\ (/\ procs[p].pc = "co_loadOrders"
               /\ procs'[p] # procs[p]
               /\ orders[u] # NoOrder /\ orders[u].orderId = o
               /\ elapsed[o] < CancelAfter)
                => procs'[p].pc = "co_notYet" /\ kept
          /\ (procs[p].pc = "co_notYet" /\ procs'[p] # procs[p])
                => procs'[p] = NoProc /\ kept

\* C24: cancelOrder for an order of the user that is less than 5 minutes
\* old answers "not yet cancellable" and returns; the order table, the
\* balances, the refund locks and the monitors are as they were.
C24_EarlyCancelKeeps == [][EarlyCancelKeeps]_vars

\* a cancel request for a young active order is being answered "not yet";
\* the order is active and monitored, no refund lock is held
C24_Witness ==
    \E p \in Pids :
        /\ procs[p].pc = "co_notYet"
        /\ orders[procs[p].u] # NoOrder
        /\ orders[procs[p].u].orderId = procs[p].oid
        /\ orders[procs[p].u].status = "active"
        /\ elapsed[procs[p].oid] < CancelAfter
        /\ monitors[procs[p].oid].running
        /\ refundLocks = {}
        /\ refunds[procs[p].oid] = 0

CreditCreates ==
    /\ \A p \in Pids :
          LET u == procs[p].u IN
            /\ (procs[p].pc \in {"ar_credit", "co_refund"} /\ procs'[p] # procs[p]
                   /\ ~users[u].present)
                  => users'[u] = [present |-> TRUE, saldo |-> procs[p].price]
            /\ (procs[p].pc = "pp_loadUsers" /\ procs'[p] # procs[p]
                   /\ (~users[u].present \/ users[u].saldo < procs[p].price))
                  => users' = users
    /\ \A u \in UserIds :
          (ledger'[u] > ledger[u] /\ ~users[u].present)
              => users'[u] = [present |-> TRUE, saldo |-> ledger'[u] - ledger[u]]

\* C27: a credit for a user without a record creates the record with the
\* credited amount as its balance, in the refund of autoRefund and of
\* cancelOrder as in the owner's credit; a debit for a user without a
\* record, or with a balance below the amount, leaves the user table as it
\* was.
C27_CreditCreatesRecord == [][CreditCreates]_vars

StoreFailureKeeps ==
    \A p \in Pids :
        (faults' = faults + 1 /\ procs'[p] # procs[p])
            => LET u == procs[p].u
                   o == procs[p].oid IN
                 /\ procs[p].kind = "purchase" => ~Debited(u, o)
                 /\ procs[p].kind \in {"tick", "cancel"}
                       => \/ refunds[o] = 0
                          \/ orders[u] = NoOrder
                          \/ orders[u].orderId # o

\* C28: when a store operation of a purchase, an automatic refund or a
\* manual cancel throws, the operation has moved no money: nothing was
\* debited for the reservation that failed, and no refund was credited for
\* an order that is still in the table to be refunded again.
C28_StoreFailureKeeps == [][StoreFailureKeeps]_vars

StatusEdges == {<<"active", "completed">>, <<"active", "cancelling">>}

StatusMoves ==
    \A u \in UserIds :
        (/\ orders[u] # NoOrder
         /\ orders'[u] # NoOrder
         /\ orders'[u].orderId = orders[u].orderId
         /\ orders'[u].status # orders[u].status)
            => <<orders[u].status, orders'[u].status>> \in StatusEdges

\* C30: the status of an order in the table changes only from active to
\* completed or from active to cancelling; a cancelling or completed order
\* leaves the table and never becomes active again.
C30_StatusMoves == [][StatusMoves]_vars

Occurrences(h, o) == Cardinality({i \in 1..Len(h) : h[i] = o})

SuccessCompletes ==
    \A p \in Pids :
        (procs[p].pc = "tk_saveOrders" /\ procs'[p] # procs[p])
            => LET u == procs[p].u
                   o == procs[p].oid IN
                 /\ orders'[u] = NoOrder
                 /\ Occurrences(history'[u], o) = 1
                 /\ ~monitors'[o].running
                 /\ activeMonitors'[u] = 0
                 /\ Debited(u, o) /\ refunds'[o] = 0
                 /\ users'[u].present => users'[u].saldo = ledger'[u]

\* C16: when the poll of an order reports the SMS, the callback ends with
\* the order removed from the table, exactly one history entry for it, its
\* monitor stopped, and the price debited once and not given back.
C16_SuccessCompletes == [][SuccessCompletes]_vars

RefundIsDebit ==
    \A p \in Pids :
        (procs[p].pc = "ar_credit" /\ procs'[p].pc = "ar_saveOrders")
            => LET u == procs[p].u
                   o == procs[p].oid IN
                 /\ <<u, o, users'[u].saldo - users[u].saldo>> \in debited
                 /\ history' = history

RefundRemoves ==
    \A p \in Pids :
        (procs[p].pc = "ar_saveOrders" /\ procs'[p] # procs[p])
            => LET u == procs[p].u
                   o == procs[p].oid IN
                 /\ orders'[u] = NoOrder
                 /\ history' = history

\* C17: the credit of autoRefund is the amount that was debited for the
\* order, so that reserve and refund leave the balance as it was; autoRefund
\* removes the order from the table and adds no history entry.
C17_RefundRoundTrip == [][RefundIsDebit /\ RefundRemoves]_vars

\* the timeout refund of an order has given the balance back: the user has
\* again what the owner credited, the order table is empty, no history
C17_Witness ==
    \E u \in UserIds, o \in OrderIds :
        /\ Debited(u, o) /\ refunds[o] = 1
        /\ ~monitors[o].sms /\ monitors[o].attempt >= MaxAttempts
        /\ orders[u] = NoOrder
        /\ history[u] = <<>>
        /\ users[u].saldo = ledger[u]
        /\ \A a \in ReffAmounts : users[u].saldo = a
        /\ Idle

\* ------------------------------------------------------------------------
\* Properties of the monitor, the refunds and the purge
\* ------------------------------------------------------------------------
\* the persisted order of the user is the one the callback works on
StillMonitored(p, statuses) ==
    /\ orders[procs[p].u] # NoOrder
    /\ orders[procs[p].u].orderId = procs[p].oid
    /\ orders[procs[p].u].status \in statuses

Persisted == <<users, orders, history>>

\* a step of the poll callback or of autoRefund that changes a table finds
\* the monitored order in the table: active when it is marked completed or
\* refunded, active or completed (as the callback itself left it) when the
\* history entry is added and the order deleted
MutatesMonitored ==
    \A p \in Pids :
        (procs[p].kind = "tick" /\ procs'[p] # procs[p] /\ Persisted' # Persisted)
            => IF procs[p].pc \in {"tk_loadHistory", "tk_saveOrders"}
               THEN StillMonitored(p, {"active", "completed"})
               ELSE StillMonitored(p, {"active"})

\* a poll that finds the order gone, replaced or not active stops its
\* interval and changes no table
StaleTickStops ==
    \A p \in Pids :
        (/\ procs[p].pc = "tk_loadOrders"
         /\ procs'[p] # procs[p]
         /\ ~StillMonitored(p, {"active"}))
            => /\ ~monitors'[procs[p].oid].running
               /\ procs'[p] = NoProc
               /\ Persisted' = Persisted

\* C31: the poll callback and autoRefund mark completed, add the history
\* entry, credit and delete only while the persisted order of the user has
\* the monitored order id and is active; a poll that finds the order gone,
\* replaced or not active stops its interval and changes no table.
C31_MutatesMonitored == [][MutatesMonitored /\ StaleTickStops]_vars

\* ------------------------------------------------------------------------
\* Specification SpecFunded: the handlers of Spec, started when the owner
\* has credited every user once (two /reff commands, lines 912-939)
\* ------------------------------------------------------------------------
Funded(amount) == [u \in UserIds |-> [present |-> TRUE, saldo |-> amount]]

InitFunded ==
    /\ InitFiles
    /\ \E amount \in ReffAmounts :
         /\ users = Funded(amount)
         /\ ledger = [u \in UserIds |-> amount]
    /\ orders = EmptyOrders
    /\ history = [u \in UserIds |-> <<>>]
    /\ pendingOrders = {}
    /\ processingCallbacks = {}
    /\ refundLocks = {}
    /\ lockTimers = {}
    /\ activeMonitors = [u \in UserIds |-> 0]
    /\ monitors = [o \in OrderIds |-> NoMonitor]
    /\ elapsed = [o \in OrderIds |-> -1]
    /\ procs = [p \in Pids |-> NoProc]
    /\ nextOrderId = 1
    /\ refunds = [o \in OrderIds |-> 0]
    /\ debited = {}
    /\ cmds = 0
    /\ crashes = 0
    /\ autoPending = <<>>
    /\ nextTrxId = 1
    /\ credits = [t \in 1..MaxDeposits |-> 0]
    /\ expired = {}
    /\ queue = <<>>
    /\ running = 0
    /\ jobs = [j \in 1..MaxJobs |-> "new"]
    /\ emitted = [j \in 1..MaxJobs |-> "none"]
    /\ startOrder = <<>>
    /\ admitted = 0

\* the users buy; their orders are polled and time out
NextFunded ==
    \/ \E p \in Pids : PP_Start(p)
    \/ \E p \in Pids : PP_LoadOrders(p)
    \/ \E p \in Pids : PP_Services(p)
    \/ \E p \in Pids : PP_GetUser(p)
    \/ \E p \in Pids : PP_Order(p)
    \/ \E p \in Pids : PP_LoadUsers(p)
    \/ \E p \in Pids : PP_Release(p)
    \/ \E p \in Pids : PP_LoadOrders2(p)
    \/ \E p \in Pids : PP_SaveOrder(p)
    \/ \E p \in Pids : PP_Render(p)
    \/ \E p \in Pids : PP_Reply(p)
    \/ \E o \in OrderIds : Interval(o)
    \/ \E p \in Pids : TK_LoadOrders(p)
    \/ \E p \in Pids : TK_StatusSuccess(p)
    \/ \E p \in Pids : TK_StatusPending(p)
    \/ \E p \in Pids : TK_LoadOrders2(p)
    \/ \E p \in Pids : TK_AddToHistory(p)
    \/ \E p \in Pids : TK_SaveOrders(p)
    \/ \E p \in Pids : AR_SetStatus(p)
    \/ \E p \in Pids : AR_LoadOrders(p)
    \/ \E p \in Pids : AR_Credit(p)
    \/ \E p \in Pids : AR_SaveOrders(p)
    \/ RefundLockTimeout
    \/ CleanupWorker

SpecFunded == InitFunded /\ [][NextFunded]_vars

\* a handler or callback that works for one user leaves the order and the
\* history of every other user as they are
OtherUsersKept ==
    \A p \in Pids :
        (procs[p].kind # "none" /\ procs'[p] # procs[p])
            => \A v \in UserIds \ {procs[p].u} :
                  /\ orders'[v] = orders[v]
                  /\ history'[v] = history[v]

\* C32: no handler writes a table from a copy it read before an await: a
\* step that reserves, completes, cancels, refunds or purges the order of
\* one user never changes the order or the history of another user.
C32_OtherUsersKept == [][OtherUsersKept]_vars

\* the awaits of processPurchase between the add of line 1882 and the
\* delete of its exit path
FlagPcs == {"pp_services", "pp_getUser", "pp_order", "pp_loadUsers",
            "pp_release", "pp_loadOrders2", "pp_getUserName"}

PastCheck(p) == procs[p].kind = "purchase" /\ procs[p].pc \in FlagPcs

\* a purchase that has passed the in-flight check holds the flag of its user
FlagHeld == \A p \in Pids : PastCheck(p) => procs[p].u \in pendingOrders

\* no flag is left behind: a flag that is set belongs to a purchase that
\* passed the check and has not reached its exit
FlagOnlyInFlight ==
    \A u \in pendingOrders : \E p \in Pids : PastCheck(p) /\ procs[p].u = u

\* C33: from the moment processPurchase sets the processing flag of a user
\* until it leaves, the flag stays set, so that at most one purchase per
\* user is past the in-flight check; and every exit path clears the flag.
C33_FlagWhileInFlight ==
    /\ FlagHeld
    /\ FlagOnlyInFlight
    /\ \A p, q \in Pids :
          (p # q /\ PastCheck(p) /\ PastCheck(q)) => procs[p].u # procs[q].u

\* handleDelete returns for a user that was in the table
PurgeEnds(p) ==
    /\ procs[p].kind = "delete"
    /\ procs[p].pc \in {"hd_loadOrders", "hd_saveUsers"}
    /\ procs'[p] = NoProc

MonitorStopped(mons, registered, u) ==
    /\ registered[u] = 0
    /\ \A o \in OrderIds : mons[o].u = u => ~mons[o].running

\* when the purge of a user ends, the user has no record and no order and
\* none of the user's intervals runs
PurgeRemoves ==
    \A p \in Pids :
        PurgeEnds(p)
            => /\ ~users'[procs[p].u].present
               /\ orders'[procs[p].u] = NoOrder
               /\ MonitorStopped(monitors', activeMonitors', procs[p].u)

\* a user record disappears only in the last step of the purge of that user
OnlyPurgeRemoves ==
    \A u \in UserIds :
        (users[u].present /\ ~users'[u].present)
            => \E p \in Pids : PurgeEnds(p) /\ procs[p].u = u

\* C35: when handleDelete of a user ends, the user has no record and no
\* order in the table and the user's monitor interval is stopped (the
\* provider's cancel of the order was awaited on the way); nothing but the
\* purge of a user removes the record of that user.
C35_PurgeRemoves == [][PurgeRemoves /\ OnlyPurgeRemoves]_vars

\* history entries of an order, over all users
HistoryEntries(o) ==
    Cardinality({<<u, i>> \in UserIds \X (1..HistoryCap) :
                    i <= Len(history[u]) /\ history[u][i] = o})

\* C36: no order is both completed and refunded: an order has at most one
\* history entry, and an order with a history entry has no refund credit,
\* whatever the interleaving of the poll callbacks with cancelOrder and
\* autoRefund.
C36_CompletedOrRefunded ==
    \A o \in OrderIds :
        /\ HistoryEntries(o) <= 1
        /\ ~(HistoryEntries(o) >= 1 /\ refunds[o] >= 1)

\* C38: whenever no handler or callback is at work for a user, an active
\* order of that user in the table has its monitor interval running and
\* registered for the user; this holds after a failed "order placed"
\* message, after a manual cancel whose refund failed, and after a restart.
C38_ActiveIsMonitored ==
    \A u \in UserIds :
        (orders[u] # NoOrder /\ orders[u].status = "active" /\ ~InFlight(u))
            => /\ activeMonitors[u] = orders[u].orderId
               /\ monitors[orders[u].orderId].running

\* the order is in the table of the user with the price that was debited
Persists(u, o, amount) ==
    orders[u] # NoOrder /\ orders[u].orderId = o /\ orders[u].price = amount

\* what accounts for a debit: the order in the table, its history entries
\* and its refunds
Accounts(u, o, amount) ==
    (IF Persists(u, o, amount) THEN 1 ELSE 0)
        + Occurrences(history[u], o) + refunds[o]

\* every debit of a user who still has a record, once no handler or
\* callback is at work for the user, is accounted for exactly once
DebitHasOrder ==
    \A d \in debited :
        (users[d[1]].present /\ ~InFlight(d[1])) => Accounts(d[1], d[2], d[3]) = 1

\* every order in the table was debited with its price
OrderHasDebit ==
    \A u \in UserIds :
        orders[u] # NoOrder => <<u, orders[u].orderId, orders[u].price>> \in debited

\* C39: every debit is matched by exactly one order: when the handlers of
\* the user have returned, the order is in the table with the debited price,
\* or it has one history entry and no refund, or one refund and no history
\* entry; and no order is in the table without a debit of its price.
C39_DebitMatchesOrder == DebitHasOrder /\ OrderHasDebit

(***************************************************************************)
(* Part 3  Deposits.  Specification SpecDeposit.                           *)
(*                                                                         *)
(* this.autoPending lives in memory only.  The handlers run through the    *)
(* job queue, several at a time; the poll callback of                      *)
(* startDepositMonitoring is started every 10 s whether or not the one     *)
(* before it has returned.                                                 *)
(***************************************************************************)

orderVars == <<orders, history, pendingOrders, refundLocks, lockTimers,
               activeMonitors, monitors, elapsed, nextOrderId,
               refunds, debited, crashes>>

\* trx.id === chatId && !trx.done && !trx.cancelled
ActiveDeposit(trx, u) == trx.id = u /\ ~trx.done /\ ~trx.cancelled

HasActiveDepositNever(u) == FALSE

HasActiveDeposit(u) ==
    \E i \in 1..Len(autoPending) : ActiveDeposit(autoPending[i], u)

\* this.autoPending.find(...): the first entry that matches
activeDeposit(u) ==
    autoPending[CHOOSE i \in 1..Len(autoPending) :
                   /\ ActiveDeposit(autoPending[i], u)
                   /\ \A k \in 1..(i - 1) : ~ActiveDeposit(autoPending[k], u)]

\* the entries of a transaction are marked done (and cancelled)
MarkDoneKeep(trxId, cancel) == autoPending

MarkDone(trxId, cancel) ==
    [i \in 1..Len(autoPending) |->
        IF autoPending[i].trx_id = trxId
        THEN [autoPending[i] EXCEPT !.done = TRUE,
                                    !.cancelled = IF cancel THEN TRUE ELSE @]
        ELSE autoPending[i]]

\* lines 2324-2370: /deposit <nominal>; a pending deposit of the chat is
\* answered with its cancel button, otherwise the provider is asked to
\* create a payment
DP_Start(p) ==
    /\ FreeSlot(p)
    /\ cmds < MaxCmds
    /\ cmds' = cmds + 1
    /\ \E u \in UserIds, nominal \in DepositAmounts :
         IF HasActiveDeposit(u)
         THEN procs' = [procs EXCEPT ![p] =
                          [NoProc EXCEPT !.kind = "deposit", !.pc = "dp_hasPending",
                                         !.u = u, !.oid = activeDeposit(u).trx_id]]
         ELSE procs' = [procs EXCEPT ![p] =
                          [NoProc EXCEPT !.kind = "deposit", !.pc = "dp_create",
                                         !.u = u, !.price = nominal]]
    /\ UNCHANGED <<storeVars, callbackVars, queueVars, orderVars, depositVars, users, ledger>>

\* lines 2339-2366: the answer with the pending payment and its cancel
\* button has been sent
DP_Reply(p) ==
    /\ procs[p].pc = "dp_hasPending"
    /\ procs' = End(p)
    /\ UNCHANGED <<storeVars, callbackVars, queueVars, orderVars, depositVars, users, ledger, cmds>>

\* data.get_balance: what the provider will pass on of the nominal, here
\* the nominal less a fee of 1
GetBalances(nominal) == {nominal - 1}

\* lines 2371-2384: the provider's answer: a failure ends the handler, a
\* success carries the id of the payment and the amount the user will
\* receive (data.get_balance || nominalAsli)
DP_Create(p) ==
    /\ procs[p].pc = "dp_create"
    /\ \/ /\ procs' = End(p)
          /\ UNCHANGED nextTrxId
       \/ /\ nextTrxId <= MaxDeposits
          /\ \E getBalance \in GetBalances(procs[p].price) :
               procs' =  [procs EXCEPT ![p].pc = "dp_sendPhoto", ![p].oid = nextTrxId,
                                      ![p].price = getBalance]
          /\ nextTrxId' = nextTrxId + 1
    /\ UNCHANGED <<storeVars, callbackVars, queueVars, orderVars, autoPending, credits, expired, users, ledger, cmds>>

\* lines 2379-2429: the QR picture is sent and the payment is put on the
\* list; when the picture cannot be sent the handler ends in its catch block
DP_Push(p) ==
    /\ procs[p].pc = "dp_sendPhoto"
    /\ \/ autoPending' = Append(autoPending,
                                [id |-> procs[p].u, trx_id |-> procs[p].oid,
                                 get_balance |-> procs[p].price,
                                 done |-> FALSE, cancelled |-> FALSE,
                                 old |-> FALSE])
       \/ UNCHANGED autoPending
    /\ procs' = End(p)
    /\ UNCHANGED <<storeVars, callbackVars, queueVars, orderVars, nextTrxId, credits, expired, users, ledger, cmds>>

\* findIndex(trx => trx.trx_id === trxId && !trx.done) !== -1
PendingIndex(trxId) ==
    \E i \in 1..Len(autoPending) :
        autoPending[i].trx_id = trxId /\ ~autoPending[i].done

\* lines 2432-2501: the cancel button of a payment. A payment on the list
\* that is not done is marked done and cancelled at once; the messages and
\* the provider's cancel that follow change nothing, whatever their outcome
\* (the catch block marks the same payment again). For any other id the
\* "not found" alert is awaited
cancelDeposit(p) ==
    /\ FreeSlot(p)
    /\ cmds < MaxCmds
    /\ cmds' = cmds + 1
    /\ \E trxId \in 1..MaxDeposits :
         IF PendingIndex(trxId)
         THEN /\ autoPending' = MarkDone(trxId, TRUE)
              /\ UNCHANGED procs
         ELSE /\ procs' = [procs EXCEPT ![p] =
                             [NoProc EXCEPT !.kind = "cancelDeposit",
                                            !.pc = "cd_notFound", !.oid = trxId]]
              /\ UNCHANGED autoPending
    /\ UNCHANGED <<storeVars, callbackVars, queueVars, orderVars, nextTrxId, credits, expired, users, ledger>>

\* lines 2444-2449 and 2503-2534: the alert was sent and the handler
\* returns, or answerCallbackQuery threw and the catch block marks the
\* payment of that id, done or not, done and cancelled
CD_Answer(p) ==
    /\ procs[p].pc = "cd_notFound"
    /\ \/ UNCHANGED autoPending
       \/ autoPending' = MarkDone(procs[p].oid, TRUE)
    /\ procs' = End(p)
    /\ UNCHANGED <<storeVars, callbackVars, queueVars, orderVars, nextTrxId, credits, expired, users, ledger, cmds>>

\* lines 2423, 2548-2549: time passes; a payment on the list becomes older
\* than maxMonitoringTime
DM_Age ==
    /\ \E i \in 1..Len(autoPending) :
         /\ ~autoPending[i].old
         /\ autoPending' = [autoPending EXCEPT ![i].old = TRUE]
    /\ UNCHANGED <<storeVars, callbackVars, queueVars, orderVars, nextTrxId, credits, expired, users, ledger, procs, cmds>>

\* elapsedTime > maxMonitoringTime && !trx.done
Expired(trx) == trx.old /\ ~trx.done

\* lines 2542-2565: the poll finds a payment older than 10 minutes, marks it
\* done and asks the provider to cancel it; the cancel request and the
\* messages that follow change nothing here, whatever their outcome
DM_Expire ==
    /\ \E i \in 1..Len(autoPending) :
         /\ ~autoPending[i].done /\ ~autoPending[i].cancelled
         /\ Expired(autoPending[i])
         /\ autoPending' = MarkDone(autoPending[i].trx_id, FALSE)
         /\ expired' = expired \cup {autoPending[i].trx_id}
    /\ UNCHANGED <<storeVars, callbackVars, queueVars, orderVars, nextTrxId, credits, users, ledger, procs, cmds>>

\* lines 2540-2570: the poll asks the provider for the status of a payment
\* that is not done
DM_Poll(p) ==
    /\ FreeSlot(p)
    /\ \E i \in 1..Len(autoPending) :
         /\ ~autoPending[i].done /\ ~autoPending[i].cancelled
         /\ ~Expired(autoPending[i])
         /\ procs' = [procs EXCEPT ![p] =
                        [NoProc EXCEPT !.kind = "poll", !.pc = "dm_status",
                                       !.u = autoPending[i].id,
                                       !.oid = autoPending[i].trx_id,
                                       !.price = autoPending[i].get_balance]]
    /\ UNCHANGED <<storeVars, callbackVars, queueVars, orderVars, depositVars, users, ledger, cmds>>

\* res?.data?.status: "null" stands for a request that failed
DepositStatuses == {"success", "expired", "failed", "cancel", "pending", "null"}

\* ["expired", "failed", "cancel"].includes(status)
TerminalStatus(status) == status \in {"expired", "failed", "cancel"}

\* lines 2571-2602: the status: "success" goes on to the credit; "expired",
\* "failed" and "cancel" mark the payment done (the messages of
\* cleanupDeposit follow); anything else and a failed request leave it
DM_Status(p) ==
    /\ procs[p].pc = "dm_status"
    /\ \E status \in DepositStatuses :
         IF status = "success"
         THEN /\ procs' = Goto(p, "dm_credit")
              /\ UNCHANGED autoPending
         ELSE IF TerminalStatus(status)
         THEN /\ autoPending' = MarkDone(procs[p].oid, FALSE)
              /\ procs' = End(p)
         ELSE /\ procs' = End(p)
              /\ UNCHANGED autoPending
    /\ UNCHANGED <<storeVars, callbackVars, queueVars, orderVars, nextTrxId, credits, expired, users, ledger, cmds>>

\* lines 2574-2592: the amount is credited, a missing record created, and
\* the payment marked done
DM_Credit(p) ==
    /\ procs[p].pc = "dm_credit"
    /\ LET u == procs[p].u
           amount == procs[p].price IN
         /\ users' = [users EXCEPT ![u] =
                        [present |-> TRUE,
                         saldo |-> IF users[u].present THEN users[u].saldo + amount
                                   ELSE amount]]
         /\ ledger' = [ledger EXCEPT ![u] = @ + amount]
    /\ credits' = [credits EXCEPT ![procs[p].oid] = @ + 1]
    /\ autoPending' = MarkDone(procs[p].oid, FALSE)
    /\ procs' = End(p)
    /\ UNCHANGED <<storeVars, callbackVars, queueVars, orderVars, nextTrxId, expired, cmds>>

\* lines 2638-2647: the cleanup worker drops payments done or cancelled
\* more than 5 minutes ago
DepositCleanup ==
    /\ \E i \in 1..Len(autoPending) : autoPending[i].done \/ autoPending[i].cancelled
    /\ \E old \in SUBSET {autoPending[i].trx_id : i \in 1..Len(autoPending)} :
         /\ old # {}
         /\ \A i \in 1..Len(autoPending) :
              autoPending[i].trx_id \in old
                  => (autoPending[i].done \/ autoPending[i].cancelled)
         /\ autoPending' = SelectSeq(autoPending, LAMBDA trx : trx.trx_id \notin old)
    /\ UNCHANGED <<storeVars, callbackVars, queueVars, orderVars, nextTrxId, credits, expired, users, ledger, procs, cmds>>

NextDeposit ==
    \/ \E p \in Pids : DP_Start(p)
    \/ \E p \in Pids : DP_Reply(p)
    \/ \E p \in Pids : DP_Create(p)
    \/ \E p \in Pids : DP_Push(p)
    \/ \E p \in Pids : cancelDeposit(p)
    \/ \E p \in Pids : CD_Answer(p)
    \/ DM_Age
    \/ DM_Expire
    \/ \E p \in Pids : DM_Poll(p)
    \/ \E p \in Pids : DM_Status(p)
    \/ \E p \in Pids : DM_Credit(p)
    \/ DepositCleanup

SpecDeposit == InitOrders /\ [][NextDeposit]_vars

\* ------------------------------------------------------------------------
\* Properties of the deposits
\* ------------------------------------------------------------------------
NotDone(u) == {i \in 1..Len(autoPending) : autoPending[i].id = u /\ ~autoPending[i].done}

Pending(u) ==
    {autoPending[i].trx_id : i \in {k \in 1..Len(autoPending) :
        /\ autoPending[k].id = u
        /\ ~autoPending[k].done /\ ~autoPending[k].cancelled}}

DepositRejects ==
    \A p \in Pids :
        /\ (procs[p].kind = "none" /\ procs'[p].kind = "deposit"
               /\ Pending(procs'[p].u) # {})
              => /\ procs'[p].pc = "dp_hasPending"
                 /\ procs'[p].oid \in Pending(procs'[p].u)
                 /\ nextTrxId' = nextTrxId
                 /\ autoPending' = autoPending
        /\ (procs[p].pc = "dp_hasPending" /\ procs'[p] # procs[p])
              => /\ procs'[p] = NoProc
                 /\ nextTrxId' = nextTrxId
                 /\ autoPending' = autoPending

\* C18: a /deposit of a user who has a payment that is neither done nor
\* cancelled is answered with that payment and its cancel button; the
\* handler asks the provider for nothing and adds nothing to the list.
C18_PendingRejects == [][DepositRejects]_vars

\* the second /deposit of a user is being answered with the payment that is
\* still pending
C18_Witness ==
    \E p \in Pids :
        /\ procs[p].pc = "dp_hasPending"
        /\ Pending(procs[p].u) = {procs[p].oid}
        /\ nextTrxId = 2

DoneAfter(trxId) ==
    \A i \in 1..Len(autoPending') :
        autoPending'[i].trx_id = trxId => autoPending'[i].done

OnList(trxId) == \E i \in 1..Len(autoPending) : autoPending[i].trx_id = trxId

PollOutcome ==
    \A p \in Pids :
        LET u == procs[p].u
            t == procs[p].oid IN
          /\ (procs[p].pc = "dm_status" /\ procs'[p] # procs[p])
                => /\ users' = users
                   /\ credits' = credits
                   /\ ledger' = ledger
                   /\ \/ /\ procs'[p].pc = "dm_credit"
                         /\ autoPending' = autoPending
                      \/ /\ procs'[p] = NoProc
                         /\ DoneAfter(t)
                         /\ Len(autoPending') = Len(autoPending)
                      \/ /\ procs'[p] = NoProc
                         /\ autoPending' = autoPending
          /\ (procs[p].pc = "dm_credit" /\ procs'[p] # procs[p])
                => /\ users'[u].present
                   /\ users'[u].saldo = IF users[u].present
                                         THEN users[u].saldo + procs[p].price
                                         ELSE procs[p].price
                   /\ \A v \in UserIds \ {u} : users'[v] = users[v]
                   /\ credits'[t] = credits[t] + 1
                   /\ DoneAfter(t)
                   /\ procs'[p] = NoProc

AmountPolled ==
    \A p \in Pids :
        procs[p].pc \in {"dm_status", "dm_credit"}
            => \A i \in 1..Len(autoPending) :
                 autoPending[i].trx_id = procs[p].oid
                     => /\ autoPending[i].get_balance = procs[p].price
                        /\ autoPending[i].id = procs[p].u

\* C25: the answer to a status request has one of three effects: "success"
\* credits the payment's get_balance to its user, creating the record when
\* there is none, and marks the payment done; "expired", "failed" and
\* "cancel" mark it done and credit nothing; any other answer, or none,
\* changes neither the list nor a balance.
C25_PollOutcome == [][PollOutcome]_vars /\ []AmountPolled

\* a first payment of a user was reported paid: the record was created with
\* the amount of the payment, one credit was applied, the payment is done
C25_Witness ==
    \E i \in 1..Len(autoPending) :
        /\ Idle
        /\ autoPending[i].done /\ ~autoPending[i].cancelled
        /\ autoPending[i].trx_id \notin expired
        /\ credits[autoPending[i].trx_id] = 1
        /\ users[autoPending[i].id].present
        /\ users[autoPending[i].id].saldo = autoPending[i].get_balance
        /\ ledger[autoPending[i].id] = autoPending[i].get_balance
        /\ autoPending[i].get_balance < 2

CancelMarks ==
    (cmds' # cmds /\ autoPending' # autoPending)
        => /\ Len(autoPending') = Len(autoPending)
           /\ \A i \in 1..Len(autoPending) :
                autoPending'[i] # autoPending[i]
                    => /\ ~autoPending[i].done
                       /\ autoPending'[i].done /\ autoPending'[i].cancelled

NotFoundKeeps ==
    \A p \in Pids :
        ((procs'[p].pc = "cd_notFound" \/ procs[p].pc = "cd_notFound")
           /\ procs'[p] # procs[p])
            => /\ autoPending' = autoPending
               /\ users' = users
               /\ credits' = credits

\* C26: the cancel button marks a payment that is not done as done and
\* cancelled, whatever the provider answers to the cancel request; for a
\* payment that is done, or an id that is not on the list, the handler
\* reports "not found" and changes neither the list nor a balance.
C26_CancelIdempotent == [][CancelMarks /\ NotFoundKeeps]_vars

\* the payment is on the list and done
MarkedDone(trxId) ==
    \E i \in 1..Len(autoPending) :
        autoPending[i].trx_id = trxId /\ autoPending[i].done

\* a credit is applied to a payment that is not yet done
CreditsPending ==
    \A t \in 1..MaxDeposits : credits'[t] # credits[t] => ~MarkedDone(t)

\* C37: a payment is credited at most once, and never after it was marked
\* done (cancelled, expired or credited before), also when poll callbacks
\* overlap or when the cancel button is pressed while the status request of
\* a poll is in flight.
C37_CreditedOnce ==
    /\ [](\A t \in 1..MaxDeposits : credits[t] <= 1)
    /\ [][CreditsPending]_vars

\* C19: a payment that the 10-minute ceiling has marked done is never
\* credited, whatever the provider answers and whenever it answers.
C19_ExpiredNoCredit == \A t \in expired : credits[t] = 0

\* C5: a user never has more than one payment on the list that is not done,
\* whatever the interleaving of the /deposit handlers.
C5_OnePendingDeposit == \A u \in UserIds : Cardinality(NotDone(u)) <= 1

(***************************************************************************)
(* Part 4  The job queue.  Specifications SpecQueue and SpecQueueFair.     *)
(*                                                                         *)
(* addJob and the code after `await job()` run without an await of their   *)
(* own, so each is one step: the jobs are numbered in the order of their   *)
(* admission.                                                              *)
(***************************************************************************)

JobIds == 1..MaxJobs

AtCapacityNever(r) == FALSE

\* `this.running >= this.concurrency`
AtCapacity(r) == r >= concurrency

shiftLast(q) == [job |-> q[Len(q)], queue |-> SubSeq(q, 1, Len(q) - 1)]

\* `const job = this.queue.shift()`
shift(q) == [job |-> Head(q), queue |-> Tail(q)]

\* process(): returns when the queue is at capacity or empty, otherwise
\* counts the job in, takes it from the queue and calls it
process(q, r, J) ==
    IF AtCapacity(r) \/ Len(q) = 0
    THEN /\ queue' = q
         /\ running' = r
         /\ jobs' = J
         /\ UNCHANGED startOrder
    ELSE LET s == shift(q) IN
           /\ queue' = s.queue
           /\ running' = r + 1
           /\ jobs' = [J EXCEPT ![s.job] = "running"]
           /\ startOrder' = Append(startOrder, s.job)

processFinallyStop(r, J) ==
    /\ queue' = queue
    /\ running' = r - 1
    /\ jobs' = J
    /\ UNCHANGED startOrder

\* the finally block of process(): `this.running--; this.process()`
processFinally(r, J) == process(queue, r - 1, J)

\* addJob(job): `this.queue.push(job); this.process()`
addJob ==
    /\ admitted < MaxJobs
    /\ admitted' = admitted + 1
    /\ process(Append(queue, admitted + 1), running,
               [jobs EXCEPT ![admitted + 1] = "queued"])
    /\ UNCHANGED <<storeVars, callbackVars, depositVars, orderVars, users, ledger, procs, cmds,
                   emitted>>

\* `await job()` returns: the 'completed' event, then the finally block
JobCompletes(j) ==
    /\ jobs[j] = "running"
    /\ emitted' = [emitted EXCEPT ![j] = "completed"]
    /\ processFinally(running, [jobs EXCEPT ![j] = "completed"])
    /\ UNCHANGED <<storeVars, callbackVars, depositVars, orderVars, users, ledger, procs, cmds,
                   admitted>>

\* `await job()` throws: the 'failed' event, then the finally block
JobFails(j) ==
    /\ jobs[j] = "running"
    /\ emitted' = [emitted EXCEPT ![j] = "failed"]
    /\ processFinally(running, [jobs EXCEPT ![j] = "failed"])
    /\ UNCHANGED <<storeVars, callbackVars, depositVars, orderVars, users, ledger, procs, cmds,
                   admitted>>

NextQueue ==
    \/ addJob
    \/ \E j \in JobIds : JobCompletes(j)
    \/ \E j \in JobIds : JobFails(j)

SpecQueue == InitOrders /\ [][NextQueue]_vars

\* every job that was started settles
SpecQueueFair ==
    /\ InitOrders
    /\ [][NextQueue]_vars
    /\ \A j \in JobIds : WF_vars(JobCompletes(j) \/ JobFails(j))

\* ------------------------------------------------------------------------
\* Properties of the job queue
\* ------------------------------------------------------------------------
Executing == {j \in JobIds : jobs[j] = "running"}

\* C12: the running count is the number of jobs that execute, and it stays
\* between 0 and the configured concurrency.
C12_RunningBounded ==
    /\ running = Cardinality(Executing)
    /\ 0 <= running /\ running <= concurrency

\* the queue is at capacity and a job waits
C12_Witness == running = concurrency /\ Len(queue) > 0

QueueDrains == Len(queue) > 0 => running = concurrency

FailureReported ==
    \A j \in JobIds :
        /\ jobs[j] = "failed" => emitted[j] = "failed"
        /\ jobs[j] = "completed" => emitted[j] = "completed"

\* C13: a job that throws is reported by a 'failed' event and counted out,
\* no job waits while the queue is below capacity, and every admitted job
\* is started in the end when every started job settles.
C13_FailureDoesNotStop ==
    /\ [](QueueDrains /\ FailureReported)
    /\ \A j \in JobIds : (jobs[j] = "queued") ~> (jobs[j] # "queued")

\* a job was started after another one failed while it waited
C13_Witness ==
    \E j, k \in JobIds :
        /\ jobs[j] = "failed" /\ emitted[j] = "failed"
        /\ jobs[k] = "running"
        /\ k > concurrency
        /\ running = concurrency

\* C14: the jobs are started in the order of their admission.
C14_Fifo == \A i \in 1..Len(startOrder) : startOrder[i] = i

\* jobs that had to wait were started, all in the order of admission
C14_Witness == Len(startOrder) = MaxJobs /\ Len(queue) = 0

(***************************************************************************)
(* Part 5  The history of a user.  Specification SpecHistory.              *)
(*                                                                         *)
(* addToHistory applied to one completed order after the other, from the   *)
(* empty history.  The entries are numbered in the order of completion,    *)
(* so that the newest entry of a user carries the number of completions.   *)
(***************************************************************************)
Completions(u) == IF history[u] = <<>> THEN 0 ELSE Head(history[u])

\* lines 2214 and 3257-3292: one more order of the user is completed
HistoryAdd(u) ==
    /\ Completions(u) < MaxCompletions
    /\ history' = [history EXCEPT ![u] = addToHistory(@, Completions(u) + 1)]
    /\ UNCHANGED <<storeVars, callbackVars, queueVars, depositVars,
                   users, orders, pendingOrders, refundLocks, lockTimers,
                   activeMonitors, monitors, elapsed, procs, nextOrderId,
                   ledger, refunds, debited, cmds, crashes>>

NextHistory == \E u \in UserIds : HistoryAdd(u)

SpecHistory == InitOrders /\ [][NextHistory]_vars

\* C29: after n completed orders the history of a user holds the
\* min(n, 20) latest of them, the newest first: it never holds more than 20
\* entries, and an entry leaves it only as the oldest of 21.
C29_HistoryCapped ==
    \A u \in UserIds :
        LET n == Completions(u) IN
          /\ Len(history[u]) = IF n < 20 THEN n ELSE 20
          /\ \A i \in 1..Len(history[u]) : history[u][i] = n - i + 1

\* a user has completed two orders more than the history keeps
C29_Witness ==
    \E u \in UserIds :
        /\ Len(history[u]) = 20
        /\ history[u][1] = 22
        /\ history[u][20] = 3

(***************************************************************************)
(* Part 6  The payments on the list and the clock.  Specification          *)
(* SpecSweep.                                                              *)
(*                                                                         *)
(* Every entry carries the minutes since its startTime (sinceStart), the   *)
(* minutes since its completedAt (sinceCompleted, -1 while completedAt is  *)
(* not set) and, for the properties, the minutes since it was marked done  *)
(* (sinceDone, -1 while it is not).  Date.now() - trx.startTime is         *)
(* sinceStart.  The handlers are taken as a whole here: what their awaits  *)
(* interleave with is the subject of part 3.                               *)
(***************************************************************************)

\* minutes the model counts
MaxMinutes == 12

\* maxMonitoringTime = 10 * 60 * 1000
maxMonitoringTime == 10

\* timeSinceDone > 5 * 60 * 1000
GraceMinutes == 5

\* lines 2416-2424: handleDeposit puts a payment on the list
SW_Push ==
    /\ nextTrxId <= MaxDeposits
    /\ \E u \in UserIds, nominal \in DepositAmounts :
       \E getBalance \in GetBalances(nominal) :
         autoPending' = Append(autoPending,
                               [id |-> u, trx_id |-> nextTrxId,
                                get_balance |-> getBalance,
                                done |-> FALSE, cancelled |-> FALSE,
                                sinceStart |-> 0, sinceCompleted |-> -1,
                                sinceDone |-> -1])
    /\ nextTrxId' = nextTrxId + 1
    /\ UNCHANGED <<storeVars, callbackVars, queueVars, orderVars, procs, cmds, users, ledger,
                   credits, expired>>

\* lines 2441-2452: cancelDeposit marks a payment that is not done; it sets
\* no completedAt
SW_Cancel ==
    /\ \E i \in 1..Len(autoPending) :
         /\ ~autoPending[i].done
         /\ autoPending' = [autoPending EXCEPT ![i].done = TRUE,
                                               ![i].cancelled = TRUE,
                                               ![i].sinceDone = 0]
    /\ UNCHANGED <<storeVars, callbackVars, queueVars, orderVars, procs, cmds, users, ledger,
                   nextTrxId, credits, expired>>

\* lines 2548-2565: the poll marks a payment older than 10 minutes done; it
\* sets no completedAt
SW_Expire ==
    /\ \E i \in 1..Len(autoPending) :
         /\ ~autoPending[i].done /\ ~autoPending[i].cancelled
         /\ autoPending[i].sinceStart > maxMonitoringTime
         /\ autoPending' = [autoPending EXCEPT ![i].done = TRUE, ![i].sinceDone = 0]
         /\ expired' = expired \cup {autoPending[i].trx_id}
    /\ UNCHANGED <<storeVars, callbackVars, queueVars, orderVars, procs, cmds, users, ledger,
                   nextTrxId, credits>>

\* lines 2567-2598: the provider reports a final status: on "success" the
\* amount is credited; the payment is marked done and completedAt set
SW_Final ==
    /\ \E i \in 1..Len(autoPending), status \in {"success"} \cup {s \in DepositStatuses : TerminalStatus(s)} :
         LET trx == autoPending[i] IN
           /\ ~trx.done /\ ~trx.cancelled
           /\ ~(trx.sinceStart > maxMonitoringTime)
           /\ autoPending' = [autoPending EXCEPT ![i].done = TRUE,
                                                 ![i].sinceCompleted = 0,
                                                 ![i].sinceDone = 0]
           /\ IF status = "success"
              THEN /\ users' = [users EXCEPT ![trx.id] =
                                  [present |-> TRUE,
                                   saldo |-> IF users[trx.id].present
                                             THEN users[trx.id].saldo + trx.get_balance
                                             ELSE trx.get_balance]]
                   /\ ledger' = [ledger EXCEPT ![trx.id] = @ + trx.get_balance]
                   /\ credits' = [credits EXCEPT ![trx.trx_id] = @ + 1]
              ELSE UNCHANGED <<users, ledger, credits>>
    /\ UNCHANGED <<storeVars, callbackVars, queueVars, orderVars, procs, cmds, nextTrxId, expired>>

Older(minutes) == IF minutes < 0 \/ minutes >= MaxMinutes THEN minutes ELSE minutes + 1

\* a minute passes
SW_Minute ==
    /\ \E i \in 1..Len(autoPending) : autoPending[i].sinceStart < MaxMinutes
    /\ autoPending' = [i \in 1..Len(autoPending) |->
                          [autoPending[i] EXCEPT !.sinceStart = Older(@),
                                                 !.sinceCompleted = Older(@),
                                                 !.sinceDone = Older(@)]]
    /\ UNCHANGED <<storeVars, callbackVars, queueVars, orderVars, procs, cmds, users, ledger,
                   nextTrxId, credits, expired>>

\* now - (trx.completedAt || trx.startTime || 0)
timeSinceDone(trx) ==
    IF trx.sinceCompleted >= 0 THEN trx.sinceCompleted ELSE trx.sinceStart

\* the filter of lines 2638-2647 drops the entry
Sweeps(trx) == (trx.done \/ trx.cancelled) /\ timeSinceDone(trx) > GraceMinutes

\* lines 2638-2647: the cleanup worker filters the list, every 60 s
SW_Sweep ==
    /\ autoPending' = SelectSeq(autoPending, LAMBDA trx : ~Sweeps(trx))
    /\ autoPending' # autoPending
    /\ UNCHANGED <<storeVars, callbackVars, queueVars, orderVars, procs, cmds, users, ledger,
                   nextTrxId, credits, expired>>

NextSweep ==
    \/ SW_Push
    \/ SW_Cancel
    \/ SW_Expire
    \/ SW_Final
    \/ SW_Minute
    \/ SW_Sweep

SpecSweep == InitOrders /\ [][NextSweep]_vars

OnSweepList(L, trxId) == \E i \in 1..Len(L) : L[i].trx_id = trxId

\* every payment that leaves the list is done and has been for 5 minutes
SweptAfterGrace ==
    \A i \in 1..Len(autoPending) :
        ~OnSweepList(autoPending', autoPending[i].trx_id)
            => /\ autoPending[i].done
               /\ autoPending[i].sinceDone >= GraceMinutes

\* C34: the sweep of the cleanup worker never removes a payment that is not
\* done, and removes a done or cancelled payment only when at least 5
\* minutes have passed since it was marked done, by a success, a final
\* status of the provider, the 10-minute ceiling or a manual cancel.
C34_SweptAfterGrace == [][SweptAfterGrace]_vars

(***************************************************************************)
(* Part 7  handleCallback.  Specification SpecCallback.                    *)
(*                                                                         *)
(* Every button press runs handleCallback as a job of the queue (line      *)
(* 468).  The handler a callback is routed to is one await here; what the  *)
(* handlers do to the tables is the subject of part 2.                     *)
(***************************************************************************)

\* message and data of the buttons of one chat
MaxButtons == 2

\* `${chatId}_${messageId}_${data}`
callbackKey(chatId, button) == <<chatId, button>>

KeyOf(p) == callbackKey(procs[p].u, procs[p].oid)

\* this.processingCallbacks.delete(callbackKey)
processingCallbacksDelete(keys, key) == keys \ {key}

\* lines 574-589: a key that is held is answered "processing"; otherwise
\* the key is added and answerCallbackQuery awaited
HC_Start(p) ==
    /\ FreeSlot(p)
    /\ cmds < MaxCmds
    /\ cmds' = cmds + 1
    /\ \E chatId \in UserIds, button \in 1..MaxButtons :
         IF callbackKey(chatId, button) \in processingCallbacks
         THEN /\ procs' = [procs EXCEPT ![p] =
                             [NoProc EXCEPT !.kind = "callback", !.pc = "hc_processing",
                                            !.u = chatId, !.oid = button]]
              /\ UNCHANGED processingCallbacks
         ELSE /\ processingCallbacks' =
                     processingCallbacks \cup {callbackKey(chatId, button)}
              /\ procs' = [procs EXCEPT ![p] =
                             [NoProc EXCEPT !.kind = "callback", !.pc = "hc_answer",
                                            !.u = chatId, !.oid = button]]
    /\ UNCHANGED <<storeVars, queueVars, depositVars, orderVars, users, ledger>>

\* lines 581-585: the "processing" answer was sent, or has failed
HC_Processing(p) ==
    /\ procs[p].pc = "hc_processing"
    /\ procs' = End(p)
    /\ UNCHANGED <<storeVars, callbackVars, queueVars, depositVars, orderVars,
                   users, ledger, cmds>>

\* line 589: answerCallbackQuery returns and the handler of the data is
\* awaited, or it throws (Telegram rejects the answer to a query that is
\* too old): the call stands before the try block, the job fails
HC_Answer(p) ==
    /\ procs[p].pc = "hc_answer"
    /\ \/ procs' = Goto(p, "hc_handler")
       \/ procs' = End(p)
    /\ UNCHANGED <<storeVars, callbackVars, queueVars, depositVars, orderVars,
                   users, ledger, cmds>>

\* lines 591-642 and 649-651: the handler returns and the finally block
\* deletes the key, or the handler throws and the catch block awaits its
\* message
HC_Handler(p) ==
    /\ procs[p].pc = "hc_handler"
    /\ \/ /\ processingCallbacks' = processingCallbacksDelete(processingCallbacks, KeyOf(p))
          /\ procs' = End(p)
       \/ /\ procs' = Goto(p, "hc_catch")
          /\ UNCHANGED processingCallbacks
    /\ UNCHANGED <<storeVars, queueVars, depositVars, orderVars, users, ledger, cmds>>

\* lines 643-651: the message of the catch block was sent, or has failed:
\* the finally block deletes the key
HC_Catch(p) ==
    /\ procs[p].pc = "hc_catch"
    /\ processingCallbacks' = processingCallbacksDelete(processingCallbacks, KeyOf(p))
    /\ procs' = End(p)
    /\ UNCHANGED <<storeVars, queueVars, depositVars, orderVars, users, ledger, cmds>>

NextCallback ==
    \/ \E p \in Pids : HC_Start(p)
    \/ \E p \in Pids : HC_Processing(p)
    \/ \E p \in Pids : HC_Answer(p)
    \/ \E p \in Pids : HC_Handler(p)
    \/ \E p \in Pids : HC_Catch(p)

SpecCallback == InitOrders /\ [][NextCallback]_vars

\* the callback holds its key
HoldsKey(p) == procs[p].kind = "callback" /\ procs[p].pc # "hc_processing"

\* a key has at most one handler
OneHandlerPerKey ==
    \A p, q \in Pids : (p # q /\ HoldsKey(p) /\ HoldsKey(q)) => KeyOf(p) # KeyOf(q)

\* a key that is held belongs to a callback that has not ended
KeyHasHandler ==
    \A key \in processingCallbacks : \E p \in Pids : HoldsKey(p) /\ KeyOf(p) = key

\* the duplicate of a callback changes nothing but its own position
DuplicateKeeps ==
    \A p \in Pids :
        ((procs'[p].pc = "hc_processing" \/ procs[p].pc = "hc_processing")
           /\ procs'[p] # procs[p])
            => /\ processingCallbacks' = processingCallbacks
               /\ Persisted' = Persisted
               /\ \A q \in Pids \ {p} : procs'[q] = procs[q]

\* C40: handleCallback runs at most one handler at a time per callback key;
\* a duplicate that arrives while the key is held is answered "processing"
\* and changes no state; the key is removed when the handler ends, on every
\* path, a failed acknowledgement and a failed handler included.
C40_OneHandlerPerKey ==
    /\ [](OneHandlerPerKey /\ KeyHasHandler)
    /\ [][DuplicateKeeps]_vars

====
